---- MODULE Spec2Model ----
(***************************************************************************)
(* A model of the Amadeus flights MCP server: the validation -> retry ->   *)
(* response-shaping pipeline of the tool handlers, the response            *)
(* formatters, and the session map of the HTTP transport.                  *)
(*                                                                         *)
(* Strings whose characters matter (airport codes, dates, prices) are      *)
(* sequences of one-character strings.  Strings that the code only         *)
(* compares for equality or searches for fixed phrases (enum values,       *)
(* error messages) are sequences of tokens, one token per phrase.          *)
(***************************************************************************)
EXTENDS Integers, Sequences, FiniteSets, TLC

(***************************************************************************)
(* Bounds of the model.                                                    *)
(***************************************************************************)
\* how many fields of a tool input differ from the valid baseline input
MaxDeviations == 2
\* longest provider list handed to a formatter beyond the display cap
MaxOverCap == 1
\* how many HTTP session identifiers the generator can hand out
MaxSessions == 2
\* how many requests the HTTP server processes at a time
MaxInFlight == 2

(***************************************************************************)
(* Characters.  Alphabet lists the characters the inputs use, in the       *)
(* order of their UTF-16 code units, which is the order JavaScript's       *)
(* string comparison uses.                                                 *)
(***************************************************************************)
Alphabet ==
  << " ", "-", ".", "/", "0", "1", "2", "3", "4", "5", "6", "7", "8", "9", ":",
     "B", "D", "F", "G", "H", "J", "K", "L", "N", "R", "S", "U", "W", "X",
     "h", "l", "r", "x" >>

Digits == {"0", "1", "2", "3", "4", "5", "6", "7", "8", "9"}

CharCode(c) == CHOOSE i \in 1..Len(Alphabet) : Alphabet[i] = c

DigitVal(c) == CharCode(c) - CharCode("0")

\* String.prototype.toUpperCase on one character
UpperChar(c) ==
  CASE c = "h" -> "H"
    [] c = "l" -> "L"
    [] c = "r" -> "R"
    [] c = "x" -> "X"
    [] OTHER -> c

toUpperCase(s) == [i \in 1..Len(s) |-> UpperChar(s[i])]

\* JavaScript's a >= b on strings: code-unit lexicographic order
RECURSIVE StrGeq(_, _)
StrGeq(a, b) ==
  IF b = << >> THEN TRUE
  ELSE IF a = << >> THEN FALSE
  ELSE IF CharCode(Head(a)) > CharCode(Head(b)) THEN TRUE
  ELSE IF CharCode(Head(a)) < CharCode(Head(b)) THEN FALSE
  ELSE StrGeq(Tail(a), Tail(b))

AllDigits(s, from, to) == \A i \in from..to : s[i] \in Digits

\* /^\d{4}-\d{2}-\d{2}$/
MatchesDate(s) ==
  /\ Len(s) = 10
  /\ AllDigits(s, 1, 4) /\ s[5] = "-"
  /\ AllDigits(s, 6, 7) /\ s[8] = "-"
  /\ AllDigits(s, 9, 10)

\* /^\d{2}:\d{2}$/
MatchesTime(s) ==
  /\ Len(s) = 5
  /\ AllDigits(s, 1, 2) /\ s[3] = ":" /\ AllDigits(s, 4, 5)

\* /^\d+[DW]$/
MatchesDuration(s) ==
  /\ Len(s) >= 2
  /\ AllDigits(s, 1, Len(s) - 1)
  /\ s[Len(s)] \in {"D", "W"}

(***************************************************************************)
(* JavaScript values of a tool input.  t is the runtime type; s the        *)
(* characters of a string; n the number (for "float", a non-integer        *)
(* number, n is its floor) or the truth value of a boolean; e the          *)
(* elements of an array.                                                   *)
(***************************************************************************)
VUndef == [t |-> "undef", s |-> << >>, n |-> 0, e |-> << >>]
VStr(s) == [t |-> "str", s |-> s, n |-> 0, e |-> << >>]
VInt(n) == [t |-> "int", s |-> << >>, n |-> n, e |-> << >>]
VFlt(n) == [t |-> "float", s |-> << >>, n |-> n, e |-> << >>]
VBool(b) == [t |-> "bool", s |-> << >>, n |-> IF b THEN 1 ELSE 0, e |-> << >>]
\* an array; e holds its elements
VArr(e) == [t |-> "arr", s |-> << >>, n |-> 0, e |-> e]

IsNumber(v) == v.t \in {"int", "float"}
\* JavaScript truthiness of a value
Truthy(v) ==
  CASE v.t = "undef" -> FALSE
    [] v.t = "str" -> v.s # << >>
    [] v.t = "bool" -> v.n = 1
    [] OTHER -> ~(v.t = "int" /\ v.n = 0)

(***************************************************************************)
(* The Zod schemas.  A field's verdict is "ok", "check" (the value has the *)
(* right type and fails a check: Zod records the issue and goes on) or     *)
(* "type" (wrong type, missing, or no member of the enum: Zod aborts the   *)
(* enclosing object, so its refinements do not run).                       *)
(***************************************************************************)
\* z.string().length(k)
ZStrLength(v, k) ==
  IF v.t # "str" THEN "type" ELSE IF Len(v.s) = k THEN "ok" ELSE "check"

\* z.string().min(lo).max(hi)
ZStrMinMax(v, lo, hi) ==
  IF v.t # "str" THEN "type"
  ELSE IF Len(v.s) >= lo /\ Len(v.s) <= hi THEN "ok" ELSE "check"

\* z.string().regex(re); matches: whether re matches the string
ZStrRegex(v, matches) ==
  IF v.t # "str" THEN "type" ELSE IF matches THEN "ok" ELSE "check"

\* z.string()
ZString(v) == IF v.t = "str" THEN "ok" ELSE "type"

\* z.number().int().min(lo).max(hi)
ZIntMinMax(v, lo, hi) ==
  IF ~IsNumber(v) THEN "type"
  ELSE IF v.t = "int" /\ v.n >= lo /\ v.n <= hi THEN "ok" ELSE "check"

\* z.number().positive(); a non-integer number is positive iff its floor is >= 0
ZPositive(v) ==
  IF ~IsNumber(v) THEN "type"
  ELSE IF (v.t = "int" /\ v.n > 0) \/ (v.t = "float" /\ v.n >= 0) THEN "ok"
  ELSE "check"

\* z.string().min(lo)
ZStrMin(v, lo) ==
  IF v.t # "str" THEN "type" ELSE IF Len(v.s) >= lo THEN "ok" ELSE "check"

\* x > 0 on a number
GreaterThanZero(v) == (v.t = "int" /\ v.n > 0) \/ (v.t = "float" /\ v.n >= 0)

\* z.boolean()
ZBoolean(v) == IF v.t = "bool" THEN "ok" ELSE "type"

\* z.enum(members)
ZEnum(v, members) == IF v.t = "str" /\ v.s \in members THEN "ok" ELSE "type"

\* .optional()
ZOptional(v, verdict) == IF v.t = "undef" THEN "ok" ELSE verdict

\* the worst verdict of a set of verdicts
Worst(vs) ==
  IF "type" \in vs THEN "type" ELSE IF "check" \in vs THEN "check" ELSE "ok"

TravelClasses ==
  {<<"ECONOMY">>, <<"PREMIUM_ECONOMY">>, <<"BUSINESS">>, <<"FIRST">>}
ViewBys == {<<"DURATION">>, <<"DATE">>, <<"DESTINATION">>}
AggregationModes == {<<"DAY">>, <<"DESTINATION">>, <<"WEEK">>}
TravelerTypes ==
  {<<"ADULT">>, <<"CHILD">>, <<"SENIOR">>, <<"YOUNG">>, <<"HELD_INFANT">>,
   <<"SEATED_INFANT">>, <<"STUDENT">>}
Coverages == {<<"MOST_SEGMENTS">>, <<"AT_LEAST_ONE_SEGMENT">>, <<"ALL_SEGMENTS">>}

\* airportCodeSchema, currencyCodeSchema
airportCodeSchema(v) == ZStrLength(v, 3)
\* dateSchema
dateSchema(v) == ZStrRegex(v, MatchesDate(v.s))
\* a passenger count that allows ten
passengerCountSchemaUpToTen(v) == ZIntMinMax(v, 1, 10)
\* passengerCountSchema
passengerCountSchema(v) == ZIntMinMax(v, 1, 9)

SearchFlightsFields ==
  {"origin", "destination", "departureDate", "adults", "children", "infants",
   "returnDate", "travelClass", "nonStop", "maxPrice", "currencyCode", "max"}

\* the z.object of searchFlightsSchema, field by field
searchFlightsObject(p) ==
  [f \in SearchFlightsFields |->
    CASE f = "origin" -> airportCodeSchema(p[f])
      [] f = "destination" -> airportCodeSchema(p[f])
      [] f = "departureDate" -> dateSchema(p[f])
      [] f = "adults" -> passengerCountSchema(p[f])
      [] f = "children" -> ZOptional(p[f], ZIntMinMax(p[f], 0, 8))
      [] f = "infants" -> ZOptional(p[f], ZIntMinMax(p[f], 0, 8))
      [] f = "returnDate" -> ZOptional(p[f], dateSchema(p[f]))
      [] f = "travelClass" -> ZOptional(p[f], ZEnum(p[f], TravelClasses))
      [] f = "nonStop" -> ZOptional(p[f], ZBoolean(p[f]))
      [] f = "maxPrice" -> ZOptional(p[f], ZPositive(p[f]))
      [] f = "currencyCode" -> ZOptional(p[f], ZStrLength(p[f], 3))
      [] f = "max" -> ZOptional(p[f], ZIntMinMax(p[f], 1, 250))]

\* the first .refine of searchFlightsSchema: FALSE when it reports an issue
adultsRefine(data) ==
  ~ \/ (Truthy(data["children"]) /\ GreaterThanZero(data["children"])
          /\ data["adults"].t = "int" /\ data["adults"].n = 0)
    \/ (Truthy(data["infants"]) /\ GreaterThanZero(data["infants"])
          /\ data["adults"].t = "int" /\ data["adults"].n = 0)

\* returnDateRefine with > for >=: a return on the departure day passes
returnDateRefineStrict(data) ==
  ~ (Truthy(data["returnDate"])
       /\ data["departureDate"].s # data["returnDate"].s
       /\ StrGeq(data["departureDate"].s, data["returnDate"].s))

\* the .refine on the dates (searchFlightsSchema and the cheapest-dates schema)
returnDateRefine(data) ==
  ~ (Truthy(data["returnDate"])
       /\ StrGeq(data["departureDate"].s, data["returnDate"].s))

GetFlightOffersFields == {"offerId"}
getFlightOffersObject(p) ==
  [f \in GetFlightOffersFields |-> ZStrMin(p[f], 1)]

SearchAirportsFields == {"keyword", "countryCode", "max"}
searchAirportsObject(p) ==
  [f \in SearchAirportsFields |->
    CASE f = "keyword" -> ZStrMinMax(p[f], 1, 100)
      [] f = "countryCode" -> ZOptional(p[f], ZStrLength(p[f], 2))
      [] f = "max" -> ZOptional(p[f], ZIntMinMax(p[f], 1, 100))]

GetAirlinesFields == {"airlineCodes", "max"}
getAirlinesObject(p) ==
  [f \in GetAirlinesFields |->
    CASE f = "airlineCodes" -> ZOptional(p[f], ZString(p[f]))
      [] f = "max" -> ZOptional(p[f], ZIntMinMax(p[f], 1, 100))]

CheapestDatesFields ==
  {"origin", "destination", "departureDate", "returnDate", "oneWay", "nonStop",
   "duration", "viewBy", "maxPrice", "aggregationMode"}
cheapestDatesObject(p) ==
  [f \in CheapestDatesFields |->
    CASE f = "origin" -> ZStrLength(p[f], 3)
      [] f = "destination" -> ZStrLength(p[f], 3)
      [] f = "departureDate" -> ZStrRegex(p[f], MatchesDate(p[f].s))
      [] f = "returnDate" -> ZOptional(p[f], ZStrRegex(p[f], MatchesDate(p[f].s)))
      [] f = "oneWay" -> ZOptional(p[f], ZBoolean(p[f]))
      [] f = "nonStop" -> ZOptional(p[f], ZBoolean(p[f]))
      [] f = "duration" -> ZOptional(p[f], ZStrRegex(p[f], MatchesDuration(p[f].s)))
      [] f = "viewBy" -> ZOptional(p[f], ZEnum(p[f], ViewBys))
      [] f = "maxPrice" -> ZOptional(p[f], ZPositive(p[f]))
      [] f = "aggregationMode" -> ZOptional(p[f], ZEnum(p[f], AggregationModes))]

(***************************************************************************)
(* The multi-city schema.  An element of originDestinations is an array    *)
(* <<id, originLocationCode, destinationLocationCode, date, time>> (the    *)
(* departureDateTimeRange object flattened); a traveler is <<id,           *)
(* travelerType>>; a cabin restriction is <<cabin, coverage>>.  The        *)
(* optional objects searchCriteria and flightFilters are flattened into    *)
(* the fields maxFlightOffers and cabinRestrictions.                       *)
(***************************************************************************)
originDestinationObject(od) ==
  IF od.t # "arr" \/ Len(od.e) # 5 THEN "type"
  ELSE Worst({ ZStrMin(od.e[1], 1),
               ZStrLength(od.e[2], 3),
               ZStrLength(od.e[3], 3),
               ZStrRegex(od.e[4], MatchesDate(od.e[4].s)),
               ZOptional(od.e[5], ZStrRegex(od.e[5], MatchesTime(od.e[5].s))) })

travelerObject(tr) ==
  IF tr.t # "arr" \/ Len(tr.e) # 2 THEN "type"
  ELSE Worst({ ZStrMin(tr.e[1], 1),
               ZEnum(tr.e[2], TravelerTypes) })

cabinRestrictionObject(cr) ==
  IF cr.t # "arr" \/ Len(cr.e) # 2 THEN "type"
  ELSE Worst({ ZEnum(cr.e[1], TravelClasses), ZEnum(cr.e[2], Coverages) })

\* z.array(element).min(lo).max(hi); elements: the verdicts of the elements
ZArray(v, elements, lo, hi) ==
  IF v.t # "arr" THEN "type"
  ELSE Worst(elements
             \cup {IF Len(v.e) >= lo /\ Len(v.e) <= hi THEN "ok" ELSE "check"})

\* the verdicts of the elements of an array under each element schema
LegVerdicts(v) == {originDestinationObject(v.e[i]) : i \in 1..Len(v.e)}
TravelerVerdicts(v) == {travelerObject(v.e[i]) : i \in 1..Len(v.e)}
CabinVerdicts(v) == {cabinRestrictionObject(v.e[i]) : i \in 1..Len(v.e)}
SourceVerdicts(v) == {ZEnum(v.e[i], {<<"GDS">>}) : i \in 1..Len(v.e)}

MultiCityFields ==
  {"originDestinations", "travelers", "sources", "maxFlightOffers",
   "cabinRestrictions"}
multiCityObject(p) ==
  [f \in MultiCityFields |->
    CASE f = "originDestinations" -> ZArray(p[f], LegVerdicts(p[f]), 1, 6)
      [] f = "travelers" -> ZArray(p[f], TravelerVerdicts(p[f]), 1, 9)
      \* .default(['GDS']): an absent value is replaced before the checks
      [] f = "sources" ->
           ZOptional(p[f], ZArray(p[f], SourceVerdicts(p[f]), 1, Len(p[f].e)))
      [] f = "maxFlightOffers" -> ZOptional(p[f], ZIntMinMax(p[f], 1, 250))
      [] f = "cabinRestrictions" ->
           ZOptional(p[f], ZArray(p[f], CabinVerdicts(p[f]), 0, Len(p[f].e)))]

ToolNames ==
  {"search_flights", "get_flight_offers", "search_airports", "get_airlines",
   "search_multi_city_flights", "search_flight_cheapest_dates"}

\* the schema each handler of FlightSearchTool passes to validateParams
SchemaObject(tool, p) ==
  CASE tool = "search_flights" -> searchFlightsObject(p)
    [] tool = "get_flight_offers" -> getFlightOffersObject(p)
    [] tool = "search_airports" -> searchAirportsObject(p)
    [] tool = "get_airlines" -> getAirlinesObject(p)
    [] tool = "search_multi_city_flights" -> multiCityObject(p)
    [] tool = "search_flight_cheapest_dates" -> cheapestDatesObject(p)

\* the fields a schema upper-cases
UpperCased(tool) ==
  CASE tool \in {"search_flights", "search_flight_cheapest_dates"} ->
         {"origin", "destination", "currencyCode"}
    [] tool = "search_airports" -> {"countryCode"}
    [] OTHER -> {}

\* the value schema.parse hands on: strings upper-cased, defaults filled in
Normalized(tool, p) ==
  [f \in DOMAIN p |->
    IF f \in UpperCased(tool) /\ p[f].t = "str" THEN VStr(toUpperCase(p[f].s))
    ELSE IF tool = "search_multi_city_flights" /\ f = "sources" /\ p[f].t = "undef"
      THEN VArr(<<VStr(<<"GDS">>)>>)
    ELSE p[f]]

\* the issues of the refinements, which run unless the object is aborted
RefineIssues(tool, data) ==
  (IF tool = "search_flights" /\ ~adultsRefine(data)
     THEN {[field |-> "adults",
            message |-> "Adults must be at least 1 when children or infants are present"]}
     ELSE {})
  \cup
  (IF tool \in {"search_flights", "search_flight_cheapest_dates"}
        /\ ~returnDateRefine(data)
     THEN {[field |-> "returnDate",
            message |-> "Return date must be after departure date"]}
     ELSE {})

\* schema.parse(params): the issues Zod collects (none: the parse succeeds)
ZodIssues(tool, p) ==
  LET verdict == SchemaObject(tool, p)
      bad == {f \in DOMAIN verdict : verdict[f] # "ok"}
      own == {[field |-> f, message |-> verdict[f]] : f \in bad}
  IN  IF \E f \in bad : verdict[f] = "type" THEN own
      ELSE own \cup RefineIssues(tool, Normalized(tool, p))

\* validateParams(schema, params)
validateParams(tool, p) ==
  LET issues == ZodIssues(tool, p)
  IN  IF issues = {}
      THEN [ok |-> TRUE, value |-> Normalized(tool, p), error |-> {}]
      ELSE [ok |-> FALSE, value |-> p,
            error |-> {[field |-> i.field, message |-> i.message,
                        value |-> VUndef] : i \in issues}]

(***************************************************************************)
(* Errors.  A message is a sequence of tokens: a fixed phrase is one       *)
(* token, a number is written digit by digit.  A JavaScript error value    *)
(* is a record: name ("" for a plain object), code ("" when absent),       *)
(* message, statusCode (-1 when absent).                                   *)
(***************************************************************************)
RECURSIVE NumberToString(_)
NumberToString(n) ==
  IF n < 10 THEN <<Alphabet[CharCode("0") + n]>>
  ELSE Append(NumberToString(n \div 10), Alphabet[CharCode("0") + (n % 10)])

\* parseInt of a run of digit tokens
RECURSIVE parseInt(_)
parseInt(ds) ==
  IF ds = << >> THEN 0
  ELSE 10 * parseInt(SubSeq(ds, 1, Len(ds) - 1)) + DigitVal(ds[Len(ds)])

\* message.includes(phrase)
Includes(message, phrase) == \E i \in 1..Len(message) : message[i] = phrase

\* where /\((\d+)\)/ matches in a message: <<i, j>> with message[i] = "(",
\* digits in between, message[j] = ")"
ParenNumberMatches(message) ==
  {m \in (1..Len(message)) \X (1..Len(message)) :
     /\ m[2] >= m[1] + 2
     /\ message[m[1]] = "(" /\ message[m[2]] = ")"
     /\ \A k \in (m[1] + 1)..(m[2] - 1) : message[k] \in Digits}

JsError(name, code, message, statusCode) ==
  [name |-> name, code |-> code, message |-> message, statusCode |-> statusCode]

\* new Error(message)
NewError(message) == JsError("Error", "", message, -1)

\* the TypeError of reading a property of undefined
TypeError(what) ==
  JsError("TypeError", "", <<"Cannot read properties of undefined", what>>, -1)

\* a || b on message texts
OrElse(a, b) == IF a # << >> THEN a ELSE b

(***************************************************************************)
(* What the Amadeus SDK rejects a call with.  hasResponse/hasRequest/code  *)
(* are the properties handleAmadeusError inspects; status is               *)
(* error.response.status (-1: undefined); body is the shape of the         *)
(* response's data: "none", "errors" (an errors array whose first entry    *)
(* carries text), "noErrors" (an empty errors array) or "object"; text is  *)
(* the first text the body offers (detail, title, description, ...);       *)
(* message is error.message.                                               *)
(***************************************************************************)
SdkError(hasResponse, status, body, text, hasRequest, code, message) ==
  [hasResponse |-> hasResponse, status |-> status, body |-> body, text |-> text,
   hasRequest |-> hasRequest, code |-> code, message |-> message]

\* AmadeusClient.handleAmadeusError: the error the client method rejects with
handleAmadeusError(error) ==
  IF error.hasResponse
  THEN LET statusCode ==
             IF error.status >= 0 THEN NumberToString(error.status)
             ELSE <<"undefined">>
           errorMessage ==
             CASE error.body = "errors" -> OrElse(error.text, <<"API Error">>)
               [] error.body = "object" -> OrElse(error.text, <<"{}">>)
               [] OTHER -> OrElse(error.message, <<"Unknown API error">>)
       IN  IF error.body = "noErrors"
           \* errors[0] is undefined: reading firstError.detail throws
           THEN TypeError("(reading 'detail')")
           ELSE NewError(<<"Amadeus API Error", "(">> \o statusCode
                         \o <<")", ":">> \o errorMessage)
  ELSE IF error.hasRequest
  THEN NewError(<<"Network Error", "Unable to connect to Amadeus API -">>
                \o OrElse(error.message, <<"Connection failed">>))
  ELSE IF error.code # ""
  THEN NewError(<<"Amadeus SDK Error", "(", error.code, ")", ":">>
                \o OrElse(error.message, <<"Unknown SDK error">>))
  ELSE NewError(<<"Amadeus Client Error", ":">>
                \o OrElse(error.message, <<"Unknown error">>))

createValidationError(message) == JsError("", "VALIDATION_ERROR", message, -1)
createAmadeusAPIError(message, statusCode) ==
  JsError("", "AMADEUS_API_ERROR", message, statusCode)
createNetworkError(originalError) ==
  JsError("", "NETWORK_ERROR", <<"Network error:">> \o originalError.message, -1)
createMCPError(code, message) == JsError("", code, message, -1)

\* a classification that takes a provider error without a status in its
\* message for an unknown error
handleErrorNeedsStatus(error) ==
  IF error.code # "" /\ error.message # << >> THEN error
  ELSE IF error.name = "ZodError"
  THEN createValidationError(<<"Invalid input parameters">>)
  ELSE IF /\ Includes(error.message, "Amadeus API Error")
          /\ ParenNumberMatches(error.message) # {}
  THEN LET matches == ParenNumberMatches(error.message)
           first == CHOOSE m \in matches :
                      \A o \in matches :
                        m[1] < o[1] \/ (m[1] = o[1] /\ m[2] <= o[2])
       IN  createAmadeusAPIError(
             error.message,
             parseInt(SubSeq(error.message, first[1] + 1, first[2] - 1)))
  ELSE IF Includes(error.message, "Network Error")
  THEN createNetworkError(error)
  ELSE createMCPError("UNKNOWN_ERROR",
                      OrElse(error.message, <<"An unknown error occurred">>))

\* a classification that does not recognise an error it has classified
handleErrorClassifiesAgain(error) ==
  handleErrorNeedsStatus([error EXCEPT !.code = ""])

\* ErrorHandler.handleError
handleError(error) ==
  IF error.code # "" /\ error.message # << >> THEN error
  ELSE IF error.name = "ZodError"
  THEN createValidationError(<<"Invalid input parameters">>)
  ELSE IF Includes(error.message, "Amadeus API Error")
  THEN LET matches == ParenNumberMatches(error.message)
           \* the leftmost match, and the shortest from there
           first == CHOOSE m \in matches :
                      \A o \in matches :
                        m[1] < o[1] \/ (m[1] = o[1] /\ m[2] <= o[2])
           statusCode ==
             IF matches # {}
             THEN parseInt(SubSeq(error.message, first[1] + 1, first[2] - 1))
             ELSE 500
       IN  createAmadeusAPIError(error.message, statusCode)
  ELSE IF Includes(error.message, "Network Error")
  THEN createNetworkError(error)
  ELSE createMCPError("UNKNOWN_ERROR",
                      OrElse(error.message, <<"An unknown error occurred">>))

\* a classification that also retries every client error
isRetryableErrorAnyStatus(error) ==
  CASE error.code = "NETWORK_ERROR" -> TRUE
    [] error.code = "AMADEUS_API_ERROR" -> error.statusCode >= 400
    [] OTHER -> FALSE

\* ErrorHandler.isRetryableError
isRetryableError(error) ==
  CASE error.code = "NETWORK_ERROR" -> TRUE
    [] error.code = "AMADEUS_API_ERROR" ->
         error.statusCode >= 500 \/ error.statusCode = 429 \/ error.statusCode = 408
    [] OTHER -> FALSE

Min(a, b) == IF a <= b THEN a ELSE b

\* a backoff delay that doubles without a cap
getRetryDelayUncapped(error, attempt) == 1000 * 2 ^ (attempt - 1)

\* ErrorHandler.getRetryDelay, in milliseconds
getRetryDelay(error, attempt) ==
  LET baseDelay == 1000
      maxDelay == 30000
      exponentialDelay == baseDelay * 2 ^ (attempt - 1)
  IN  Min(exponentialDelay, maxDelay)

\* an error result that carries the bare message
formatErrorBare(error) == error.message

\* ResponseFormatter.formatError: the text of the result's content
formatError(error) ==
  <<"Error:">> \o OrElse(error.message, <<"An unknown error occurred">>)

(***************************************************************************)
(* Provider responses.  A response is response.result of the SDK:          *)
(* hasResult (FALSE: result is undefined), hasData/data (the list),        *)
(* hasMeta/count (meta.count).  An entry of the list carries id (the       *)
(* offer's id, or the IATA code of an airport or airline), total (the      *)
(* characters of price.total of an offer, or of price of a date),          *)
(* hasPrice (FALSE: the date has no price) and wellFormed (FALSE: an       *)
(* offer without price or itineraries, whose projection throws).           *)
(***************************************************************************)
Entry(id, total, hasPrice, wellFormed) ==
  [id |-> id, total |-> total, hasPrice |-> hasPrice, wellFormed |-> wellFormed]

Response(hasResult, hasData, data, hasMeta, count) ==
  [hasResult |-> hasResult, hasData |-> hasData, data |-> data,
   hasMeta |-> hasMeta, count |-> count]

\* process.env.DEFAULT_CURRENCY || 'USD'
getDefaultCurrency == <<"U", "S", "D">>

\* ResponseFormatter.formatPrice
formatPrice(total) == getDefaultCurrency \o <<" ">> \o total

\* a replace that also drops the decimal point
StripNonDigits(text) == SelectSeq(text, LAMBDA c : c \in Digits)

\* text.replace(/[^\d.]/g, '')
StripNonNumeric(text) == SelectSeq(text, LAMBDA c : c \in Digits \cup {"."})

\* the length of the run of digits of text that starts at position i
RECURSIVE DigitRun(_, _)
DigitRun(text, i) ==
  IF i <= Len(text) /\ text[i] \in Digits THEN 1 + DigitRun(text, i + 1) ELSE 0

\* parseFloat on a text of digits and dots: the longest prefix of the form
\* digits [. digits]; the value in hundredths, nan when the prefix has no digit
parseFloat(text) ==
  LET intLen == DigitRun(text, 1)
      hasDot == intLen < Len(text) /\ text[intLen + 1] = "."
      fracLen == IF hasDot THEN DigitRun(text, intLen + 2) ELSE 0
      frac == SubSeq(text, intLen + 2, intLen + 1 + fracLen)
      tenths == IF fracLen >= 1 THEN DigitVal(frac[1]) ELSE 0
      hundredths == IF fracLen >= 2 THEN DigitVal(frac[2]) ELSE 0
  IN  [nan |-> intLen + fracLen = 0,
       v |-> 100 * parseInt(SubSeq(text, 1, intLen)) + 10 * tenths + hundredths]

\* the comparator's priceA - priceB; a NaN difference sorts as 0
PriceDifference(a, b) == IF a.nan \/ b.nan THEN 0 ELSE a.v - b.v

\* the sort key of a listed offer
OfferSortKey(offer) == parseFloat(StripNonNumeric(offer.price))

\* a sort key that puts the dates without a price behind the priced ones
DateSortKeyUnpricedLast(date) ==
  LET stripped == StripNonNumeric(date.price)
  IN  parseFloat(IF stripped = << >> THEN <<"9", "9", "9", "9", "9">> ELSE stripped)

\* the sort key of a listed date: parseFloat(price.replace(...) || '0')
DateSortKey(date) ==
  LET stripped == StripNonNumeric(date.price)
  IN  parseFloat(IF stripped = << >> THEN <<"0">> ELSE stripped)

\* Array.prototype.sort is stable: x goes behind every element not after it.
\* The elements are pairs [x, k] of an item and its sort key.
RECURSIVE InsertSorted(_, _)
InsertSorted(p, sorted) ==
  IF sorted = << >> THEN <<p>>
  ELSE IF PriceDifference(Head(sorted).k, p.k) <= 0
       THEN <<Head(sorted)>> \o InsertSorted(p, Tail(sorted))
       ELSE <<p>> \o sorted

\* the first n elements of list, sorted; keys[i] is the key of list[i]
RECURSIVE SortKeyed(_, _, _)
SortKeyed(list, keys, n) ==
  IF n = 0 THEN << >>
  ELSE InsertSorted([x |-> list[n], k |-> keys[n]], SortKeyed(list, keys, n - 1))

\* list.sort((a, b) => key(a) - key(b)); keys[i] is the key of list[i]
SortBy(list, keys) ==
  LET sorted == SortKeyed(list, keys, Len(list))
  IN  [i \in 1..Len(list) |-> sorted[i].x]

\* the display cap of every list formatter
MaxListed == 10

\* a slice that keeps the whole list
SliceUncapped(list, n) == list

\* list.slice(0, n)
Slice(list, n) == SubSeq(list, 1, Min(n, Len(list)))

Listed(id, price) == [id |-> id, price |-> price]

\* the JSON text of a formatted list: its entries and its meta block
Formatted(list, count, total, showing) ==
  [threw |-> FALSE, error |-> NewError(<< >>), text |-> <<"{">>,
   list |-> list, count |-> count, total |-> total, showing |-> showing]

\* a formatter or handler step that throws
Throws(error) ==
  [threw |-> TRUE, error |-> error, text |-> << >>,
   list |-> << >>, count |-> 0, total |-> 0, showing |-> 0]

\* a result whose content is a text message
TextResult(text) ==
  [threw |-> FALSE, error |-> NewError(<< >>), text |-> text,
   list |-> << >>, count |-> 0, total |-> 0, showing |-> 0]

\* response.data.map(...) and response.meta.count throw on a malformed response
Malformed(response) == ~response.hasResult \/ ~response.hasData \/ ~response.hasMeta

\* ResponseFormatter.formatFlightOffers
formatFlightOffers(response) ==
  IF Malformed(response)
       \/ \E i \in 1..Len(response.data) : ~response.data[i].wellFormed
  THEN Throws(TypeError("(reading)"))
  ELSE LET offers == [i \in 1..Len(response.data) |->
                        Listed(response.data[i].id,
                               formatPrice(response.data[i].total))]
           sortedOffers == SortBy(offers, [i \in 1..Len(offers) |-> OfferSortKey(offers[i])])
           limitedOffers == Slice(sortedOffers, MaxListed)
       IN  Formatted(limitedOffers, response.count, Len(offers), Len(limitedOffers))

\* ResponseFormatter.formatAirports
formatAirports(response) ==
  IF Malformed(response) THEN Throws(TypeError("(reading)"))
  ELSE LET airports == [i \in 1..Len(response.data) |->
                          Listed(response.data[i].id, << >>)]
           limitedAirports == Slice(airports, MaxListed)
       IN  Formatted(limitedAirports, response.count, Len(airports),
                     Len(limitedAirports))

\* ResponseFormatter.formatAirlines
formatAirlines(response) ==
  IF Malformed(response) THEN Throws(TypeError("(reading)"))
  ELSE LET airlines == [i \in 1..Len(response.data) |->
                          Listed(response.data[i].id, << >>)]
           limitedAirlines == Slice(airlines, MaxListed)
       IN  Formatted(limitedAirlines, response.count, Len(airlines),
                     Len(limitedAirlines))

\* ResponseFormatter.formatFlightCheapestDates
formatFlightCheapestDates(response) ==
  IF Malformed(response) THEN Throws(TypeError("(reading)"))
  ELSE LET defaultCurrency == getDefaultCurrency
           dates == [i \in 1..Len(response.data) |->
                       Listed(response.data[i].id,
                              IF response.data[i].hasPrice
                                   /\ response.data[i].total # << >>
                              THEN defaultCurrency \o <<" ">>
                                     \o StripNonNumeric(response.data[i].total)
                              ELSE <<"N", "/", "A">>)]
           sortedDates ==
             Slice(SortBy(dates, [i \in 1..Len(dates) |-> DateSortKey(dates[i])]),
                   MaxListed)
       IN  Formatted(sortedDates, response.count, Len(dates), Len(sortedDates))

(***************************************************************************)
(* The provider client: what a client method makes of the SDK's resolved   *)
(* response, given the validated parameters.                               *)
(***************************************************************************)
\* an SDK-less error (a TypeError raised inside the client's try block) as
\* handleAmadeusError sees it: no response, no request, no code
AsCaught(error) == SdkError(FALSE, -1, "none", << >>, FALSE, "", error.message)

Returns(response) == [threw |-> FALSE, error |-> NewError(<< >>), response |-> response]
Rejects(error) == [threw |-> TRUE, error |-> error,
                   response |-> Response(FALSE, FALSE, << >>, FALSE, 0)]

\* AmadeusClient.searchFlights, searchMultiCityFlights, searchFlightCheapestDates
returnResult(response) == Returns(response)

\* AmadeusClient.getFlightOffers: the offers whose id is offerId
getFlightOffers(offerId, response) ==
  IF ~response.hasResult
  THEN Rejects(handleAmadeusError(AsCaught(TypeError("(reading 'data')"))))
  ELSE Returns([response EXCEPT
                  !.hasData = TRUE,
                  !.data = IF response.hasData
                           THEN SelectSeq(response.data, LAMBDA o : o.id = offerId.s)
                           ELSE << >>])

\* a client method that hands on the provider's list as it is
limitResultsIgnoresMax(max, response) == Returns(response)

\* AmadeusClient.searchAirports and getAirlines: the list cut to params.max
limitResults(max, response) ==
  IF ~Truthy(max) THEN Returns(response)
  ELSE IF ~response.hasResult
  THEN Rejects(handleAmadeusError(AsCaught(TypeError("(reading 'data')"))))
  ELSE IF response.hasData /\ Len(response.data) > max.n
  THEN IF ~response.hasMeta
       THEN Rejects(handleAmadeusError(AsCaught(TypeError("(reading 'count')"))))
       ELSE Returns([response EXCEPT !.data = Slice(response.data, max.n),
                                     !.count = Min(response.count, max.n)])
  ELSE Returns(response)

\* the client method a tool's operation calls
ClientMethod(t, validatedParams, response) ==
  CASE t = "get_flight_offers" -> getFlightOffers(validatedParams["offerId"], response)
    [] t \in {"search_airports", "get_airlines"} ->
         limitResults(validatedParams["max"], response)
    [] OTHER -> returnResult(response)

\* the formatter a tool hands the client's response to
Formatter(t, response) ==
  CASE t = "search_airports" -> formatAirports(response)
    [] t = "get_airlines" -> formatAirlines(response)
    [] t = "search_flight_cheapest_dates" -> formatFlightCheapestDates(response)
    [] OTHER -> formatFlightOffers(response)

\* the tools whose provider call goes through withRetry
UsesRetry(t) == t # "search_flight_cheapest_dates"

\* the attempt count the handlers pass to withRetry
HandlerMaxAttempts == 3

\* the object validateParams throws
ValidationFailure == JsError("", "VALIDATION_ERROR", <<"Invalid parameters provided">>, -1)

\* the catch block of a FlightSearchTool handler
handlerCatch(t, error) ==
  IF t = "search_flight_cheapest_dates"
       /\ error.name \in {"UnsupportedRouteError", "SystemError"}
  THEN TextResult(<<"Warning:", "The cheapest dates search is not available">>)
  ELSE TextResult(formatError(error))

\* the tool callback registered with the MCP server: the handler's result, or
\* an error text when the handler threw
toolCallback(outcome) ==
  IF outcome.threw
  THEN TextResult(<<"Error:">> \o handleError(outcome.error).message)
  ELSE outcome

(***************************************************************************)
(* The inputs the model draws from.                                        *)
(***************************************************************************)
LHR == <<"L", "H", "R">>
JFK == <<"J", "F", "K">>
Date15 == <<"2", "0", "2", "5", "-", "0", "1", "-", "1", "5">>
Date20 == <<"2", "0", "2", "5", "-", "0", "1", "-", "2", "0">>
Date10 == <<"2", "0", "2", "5", "-", "0", "1", "-", "1", "0">>
\* 15/01/2025, not in the form YYYY-MM-DD
DateSlashed == <<"1", "5", "/", "0", "1", "/", "2", "0", "2", "5">>

\* a valid input of each tool, every optional field absent
Baseline(t) ==
  CASE t = "search_flights" ->
         [f \in SearchFlightsFields |->
            CASE f = "origin" -> VStr(LHR)
              [] f = "destination" -> VStr(JFK)
              [] f = "departureDate" -> VStr(Date15)
              [] f = "adults" -> VInt(1)
              [] OTHER -> VUndef]
    [] t = "get_flight_offers" -> [f \in GetFlightOffersFields |-> VStr(<<"1">>)]
    [] t = "search_airports" ->
         [f \in SearchAirportsFields |->
            IF f = "keyword" THEN VStr(<<"L", "N", "D">>) ELSE VUndef]
    [] t = "get_airlines" -> [f \in GetAirlinesFields |-> VUndef]
    [] t = "search_multi_city_flights" ->
         [f \in MultiCityFields |->
            CASE f = "originDestinations" ->
                   VArr(<<VArr(<<VStr(<<"1">>), VStr(LHR), VStr(JFK),
                                 VStr(Date15), VUndef>>)>>)
              [] f = "travelers" ->
                   VArr(<<VArr(<<VStr(<<"1">>), VStr(<<"ADULT">>)>>)>>)
              [] OTHER -> VUndef]
    [] t = "search_flight_cheapest_dates" ->
         [f \in CheapestDatesFields |->
            CASE f = "origin" -> VStr(LHR)
              [] f = "destination" -> VStr(JFK)
              [] f = "departureDate" -> VStr(Date15)
              [] OTHER -> VUndef]

\* an origin-destination leg with the given origin code
Leg(code) == VArr(<<VStr(<<"1">>), VStr(code), VStr(JFK), VStr(Date15), VUndef>>)
Traveler(type) == VArr(<<VStr(<<"1">>), VStr(type)>>)

\* the values a field of an input takes besides its baseline value
Alternatives(t) ==
  CASE t = "search_flights" ->
         { <<"origin", VStr(<<"l", "h", "r">>)>>, <<"origin", VStr(<<"L", "H">>)>>,
           <<"origin", VUndef>>, <<"origin", VInt(5)>>,
           <<"destination", VStr(<<"J", "F", "K", "X">>)>>,
           <<"departureDate", VStr(DateSlashed)>>,
           <<"adults", VInt(0)>>, <<"adults", VInt(9)>>, <<"adults", VInt(10)>>,
           <<"adults", VFlt(1)>>,
           <<"children", VInt(2)>>, <<"children", VInt(9)>>,
           <<"infants", VInt(1)>>, <<"infants", VInt(-1)>>,
           <<"returnDate", VStr(Date20)>>, <<"returnDate", VStr(Date15)>>,
           <<"returnDate", VStr(Date10)>>, <<"returnDate", VStr(DateSlashed)>>,
           <<"travelClass", VStr(<<"ECONOMY">>)>>, <<"travelClass", VStr(<<"COACH">>)>>,
           <<"nonStop", VBool(TRUE)>>, <<"nonStop", VStr(<<"yes">>)>>,
           <<"maxPrice", VInt(100)>>, <<"maxPrice", VInt(0)>>,
           <<"currencyCode", VStr(<<"U", "S", "D">>)>>,
           <<"currencyCode", VStr(<<"U", "S">>)>>,
           <<"max", VInt(10)>>, <<"max", VInt(251)>> }
    [] t = "get_flight_offers" ->
         { <<"offerId", VStr(<<"2">>)>>, <<"offerId", VStr(<< >>)>>,
           <<"offerId", VUndef>>, <<"offerId", VInt(1)>> }
    [] t = "search_airports" ->
         { <<"keyword", VStr(<< >>)>>, <<"keyword", VStr([i \in 1..101 |-> "x"])>>,
           <<"keyword", VUndef>>,
           <<"countryCode", VStr(<<"G", "B">>)>>, <<"countryCode", VStr(<<"G", "B", "R">>)>>,
           <<"max", VInt(1)>>, <<"max", VInt(2)>>, <<"max", VInt(0)>>,
           <<"max", VInt(101)>>, <<"max", VFlt(1)>> }
    [] t = "get_airlines" ->
         { <<"airlineCodes", VStr(<<"B", "A">>)>>, <<"airlineCodes", VInt(5)>>,
           <<"max", VInt(1)>>, <<"max", VInt(0)>>, <<"max", VInt(100)>> }
    [] t = "search_multi_city_flights" ->
         { <<"originDestinations", VArr(<< >>)>>,
           <<"originDestinations", VArr([i \in 1..7 |-> Leg(LHR)])>>,
           <<"originDestinations", VArr(<<Leg(LHR), Leg(<<"L", "H">>)>>)>>,
           <<"originDestinations", VArr(<<Leg(LHR), Leg(JFK)>>)>>,
           <<"originDestinations", VUndef>>,
           <<"travelers", VArr(<< >>)>>,
           <<"travelers", VArr([i \in 1..10 |-> Traveler(<<"ADULT">>)])>>,
           <<"travelers", VArr(<<Traveler(<<"PILOT">>)>>)>>,
           <<"sources", VArr(<<VStr(<<"GDS">>)>>)>>, <<"sources", VArr(<< >>)>>,
           <<"sources", VArr(<<VStr(<<"NDC">>)>>)>>,
           <<"maxFlightOffers", VInt(5)>>, <<"maxFlightOffers", VInt(0)>>,
           <<"cabinRestrictions",
             VArr(<<VArr(<<VStr(<<"BUSINESS">>), VStr(<<"ALL_SEGMENTS">>)>>)>>)>>,
           <<"cabinRestrictions",
             VArr(<<VArr(<<VStr(<<"COACH">>), VStr(<<"ALL_SEGMENTS">>)>>)>>)>> }
    [] t = "search_flight_cheapest_dates" ->
         { <<"origin", VStr(<<"L", "H">>)>>, <<"destination", VUndef>>,
           <<"departureDate", VStr(DateSlashed)>>,
           <<"returnDate", VStr(Date20)>>, <<"returnDate", VStr(Date15)>>,
           <<"returnDate", VStr(Date10)>>,
           <<"oneWay", VBool(TRUE)>>, <<"oneWay", VInt(1)>>,
           <<"duration", VStr(<<"7", "D">>)>>, <<"duration", VStr(<<"7", "X">>)>>,
           <<"viewBy", VStr(<<"DATE">>)>>, <<"viewBy", VStr(<<"PRICE">>)>>,
           <<"maxPrice", VInt(100)>>, <<"maxPrice", VInt(-5)>> }

\* the inputs that differ from the baseline in at most k fields
RECURSIVE Deviating(_, _)
Deviating(t, k) ==
  IF k = 0 THEN {Baseline(t)}
  ELSE LET fewer == Deviating(t, k - 1)
       IN  fewer \cup {[q EXCEPT ![a[1]] = a[2]] : q \in fewer, a \in Alternatives(t)}

ToolInputs(t) == Deviating(t, MaxDeviations)

\* what the SDK rejects a call with
ServiceUnavailable ==
  SdkError(TRUE, 503, "errors", <<"Service unavailable">>, FALSE, "ServerError", << >>)
BadRequest ==
  SdkError(TRUE, 400, "errors", <<"Invalid date">>, FALSE, "ClientError", << >>)
NotFound == SdkError(TRUE, 404, "object", << >>, FALSE, "NotFoundError", << >>)
RateLimited == SdkError(TRUE, 429, "object", <<"Too many requests">>, FALSE, "", << >>)
RequestTimeout == SdkError(TRUE, 408, "none", << >>, FALSE, "", <<"Request timeout">>)
NoStatus == SdkError(TRUE, -1, "none", << >>, FALSE, "NetworkError", << >>)
NoConnection == SdkError(FALSE, -1, "none", << >>, TRUE, "", <<"socket hang up">>)
SdkFailure == SdkError(FALSE, -1, "none", << >>, FALSE, "ECONNRESET", <<"read ECONNRESET">>)
PlainFailure == SdkError(FALSE, -1, "none", << >>, FALSE, "", <<"boom">>)
EmptyErrors == SdkError(TRUE, 503, "noErrors", << >>, FALSE, "ServerError", << >>)

SdkErrors ==
  { ServiceUnavailable, BadRequest, RateLimited, RequestTimeout, NoStatus,
    NoConnection, SdkFailure, EmptyErrors }

\* an offer with the given id and price.total
Offer(id, total) == Entry(id, total, TRUE, TRUE)
Price300 == <<"3", "0", "0", ".", "0", "0">>
Price500 == <<"5", "0", "0", ".", "0", "0">>

\* what the SDK resolves a call with
SdkResponses ==
  { Response(TRUE, TRUE, << >>, TRUE, 0),
    Response(TRUE, TRUE, <<Offer(<<"1">>, Price500), Offer(<<"2">>, Price300)>>, TRUE, 2),
    Response(FALSE, FALSE, << >>, FALSE, 0),
    Response(TRUE, TRUE, <<Offer(<<"1">>, Price500)>>, FALSE, 0),
    Response(TRUE, TRUE, <<Entry(<<"1">>, << >>, FALSE, FALSE)>>, TRUE, 1) }

(***************************************************************************)
(* State of one tool call, or of one use of withRetry on its own.          *)
(***************************************************************************)
VARIABLES
  pc,           \* "idle", "awaiting" (the operation is in flight),
                \* "waiting" (a backoff timer runs), "done"
  tool,         \* the tool being called; "none": withRetry is used on its own
  params,       \* the tool's input; once validated, the validated value
  validated,    \* whether validateParams accepted the input of this call
  maxAttempts,  \* withRetry's maxAttempts
  attempt,      \* withRetry's attempt
  calls,        \* how often the operation was invoked for this call
  waits,        \* the backoff delays waited so far, in milliseconds
  errors,       \* the classified error of each failed attempt, in order
  outcome,      \* "none", "returned", "threw": how the last invocation ended
  response,     \* the value the operation returned
  caught,       \* the error thrown to the caller (the handler's catch block)
  result        \* what the tool callback returned, or that it threw

toolVars ==
  <<pc, tool, params, validated, maxAttempts, attempt, calls, waits, errors,
    outcome, response, caught, result>>

\* the state of the HTTP server, described with its actions below
VARIABLES
  created,      \* how many transports (and server instances) were created
  phase,        \* phase[k] of transport k: "connecting" (mcpServer.connect is
                \* awaited), "open", "closed"
  sessionId,    \* sessionId[k]: transport.sessionId of transport k
  transports,   \* this.transports: own properties, key -> transport
  servers,      \* this.servers: own properties, key -> server instance
  generated,    \* how many session IDs the generator has handed out
  lastRequest,  \* the request answered last, or being answered
  lastStatus,   \* the HTTP status of the last answer; 0: not answered yet
  health,       \* activeSessions in the last answer when it came from
                \* GET /health; -1 when it came from another route
  streams,      \* the transports whose GET stream is open
  inflight,     \* inflight[k]: the requests of transport k being processed
  listeners,    \* the uncaughtException (and as many unhandledRejection)
                \* listeners registered on the process
  proc          \* the process: "running", "closing" (server.close was
                \* called), "exited"

VARIABLES
  stopState,    \* stop(): "idle" (never called), "closing" (in its loop),
                \* "done" (it has resolved)
  registered,   \* the transports of Object.entries(this.transports), as the
                \* loop of stop() received them
  position,     \* how many of them the loop has been through
  attempts      \* the transports stop() called close on, each with how the
                \* call ended: "closed" or "threw"

stopVars == <<stopState, registered, position, attempts>>

httpVars ==
  <<created, phase, sessionId, transports, servers, generated, lastRequest,
    lastStatus, health, streams, inflight, listeners, proc, stopVars>>

VARIABLES
  env,          \* process.env of the stdio entry point, once it is launched
  boot,         \* where the entry point is: "unstarted", "main" (launched,
                \* main not yet run), "starting" (server.start is awaited),
                \* "running", "stopping" (server.stop is awaited), "exited"
  config,       \* what loadConfig returned
  instances,    \* how many server instances the entry point has constructed
  stdio,        \* the stdio transport: "none", "connecting", "connected",
                \* "failed", "closed"
  exitCode      \* the code passed to process.exit; -1: none yet

bootVars == <<env, boot, config, instances, stdio, exitCode>>

NoResult == TextResult(<< >>)
NoError == JsError("", "", << >>, -1)
NoResponse == Response(FALSE, FALSE, << >>, FALSE, 0)

\* no call in progress
Idle ==
  /\ pc = "idle"
  /\ tool = "none"
  /\ params = Baseline("get_airlines")
  /\ validated = FALSE
  /\ maxAttempts = HandlerMaxAttempts
  /\ attempt = 0
  /\ calls = 0
  /\ waits = << >>
  /\ errors = << >>
  /\ outcome = "none"
  /\ response = NoResponse
  /\ caught = NoError
  /\ result = NoResult

\* the try block ends normally with a formatted result
HandlerReturns(res) ==
  /\ pc' = "done"
  /\ caught' = NoError
  /\ result' = toolCallback(res)

\* an error that no catch block holds: it leaves the handler and ends the
\* process
HandlerCatchesFatal(error) ==
  /\ pc' = "crashed"
  /\ caught' = error
  /\ UNCHANGED result

\* an error reaches the caller: the catch block of the handler, if there is one
HandlerCatches(error) ==
  /\ pc' = "done"
  /\ caught' = error
  /\ result' = IF tool = "none" THEN NoResult
               ELSE toolCallback(handlerCatch(tool, error))

(***************************************************************************)
(* A tool is called: validateParams, and on success the first invocation   *)
(* of the operation (directly, or as attempt 1 of withRetry).              *)
(***************************************************************************)
CallTool(t, p) ==
  /\ UNCHANGED <<httpVars, bootVars>>
  /\ pc = "idle"
  /\ tool' = t
  /\ maxAttempts' = HandlerMaxAttempts
  /\ UNCHANGED <<waits, errors, outcome, response>>
  /\ LET v == validateParams(t, p)
     IN  IF v.ok
         THEN /\ validated' = TRUE
              /\ params' = v.value
              /\ attempt' = 1
              /\ calls' = 1
              /\ pc' = "awaiting"
              /\ UNCHANGED <<caught, result>>
         ELSE /\ validated' = FALSE
              /\ params' = p
              /\ UNCHANGED <<attempt, calls>>
              /\ pc' = "done"
              /\ caught' = ValidationFailure
              /\ result' = toolCallback(handlerCatch(t, ValidationFailure))

\* a retry loop that gives up one attempt early
OperationFailsGivesUpEarly(error) ==
  /\ outcome' = "threw"
  /\ UNCHANGED response
  /\ LET mcpError == handleError(error)
     IN  /\ errors' = Append(errors, mcpError)
         /\ IF attempt + 1 >= maxAttempts \/ ~isRetryableError(mcpError)
            THEN /\ HandlerCatches(mcpError)
                 /\ UNCHANGED waits
            ELSE /\ waits' = Append(waits, getRetryDelay(mcpError, attempt))
                 /\ pc' = "waiting"
                 /\ UNCHANGED <<caught, result>>

\* a retry loop that surfaces the error of the first attempt
OperationFailsThrowsFirst(error) ==
  /\ outcome' = "threw"
  /\ UNCHANGED response
  /\ LET mcpError == handleError(error)
     IN  /\ errors' = Append(errors, mcpError)
         /\ IF attempt = maxAttempts \/ ~isRetryableError(mcpError)
            THEN /\ HandlerCatches(errors'[1])
                 /\ UNCHANGED waits
            ELSE /\ waits' = Append(waits, getRetryDelay(mcpError, attempt))
                 /\ pc' = "waiting"
                 /\ UNCHANGED <<caught, result>>

\* a retry loop that waits once more before it gives up
OperationFailsWaitsLast(error) ==
  /\ outcome' = "threw"
  /\ UNCHANGED response
  /\ LET mcpError == handleError(error)
     IN  /\ errors' = Append(errors, mcpError)
         /\ IF ~isRetryableError(mcpError)
            THEN /\ HandlerCatches(mcpError)
                 /\ UNCHANGED waits
            ELSE /\ waits' = Append(waits, getRetryDelay(mcpError, attempt))
                 /\ IF attempt = maxAttempts
                    THEN HandlerCatches(mcpError)
                    ELSE pc' = "waiting" /\ UNCHANGED <<caught, result>>

\* the operation throws: the catch block of withRetry, or, for the tool
\* without retry, of the handler
OperationFails(error) ==
  /\ outcome' = "threw"
  /\ UNCHANGED response
  /\ IF UsesRetry(tool)
     THEN LET mcpError == handleError(error)
          IN  /\ errors' = Append(errors, mcpError)
              /\ IF attempt = maxAttempts \/ ~isRetryableError(mcpError)
                 THEN /\ HandlerCatches(mcpError)
                      /\ UNCHANGED waits
                 ELSE /\ waits' = Append(waits, getRetryDelay(mcpError, attempt))
                      /\ pc' = "waiting"
                      /\ UNCHANGED <<caught, result>>
     ELSE /\ errors' = Append(errors, handleError(error))
          /\ HandlerCatches(error)
          /\ UNCHANGED waits

\* the operation returns a value: withRetry returns it, the handler formats it
OperationSucceeds(value) ==
  /\ outcome' = "returned"
  /\ response' = value
  /\ UNCHANGED <<waits, errors>>
  /\ IF tool = "none"
     THEN /\ pc' = "done"
          /\ UNCHANGED <<caught, result>>
     ELSE LET formatted == Formatter(tool, value)
          IN  IF formatted.threw
              THEN HandlerCatches(formatted.error)
              ELSE HandlerReturns(formatted)

\* the SDK resolves the call in flight
SdkResolves(sdkResponse) ==
  /\ UNCHANGED <<httpVars, bootVars>>
  /\ pc = "awaiting"
  /\ tool # "none"
  /\ LET got == ClientMethod(tool, params, sdkResponse)
     IN  IF got.threw THEN OperationFails(got.error)
         ELSE OperationSucceeds(got.response)
  /\ UNCHANGED <<tool, params, validated, maxAttempts, attempt, calls>>

\* the SDK rejects the call in flight
SdkRejects(error) ==
  /\ UNCHANGED <<httpVars, bootVars>>
  /\ pc = "awaiting"
  /\ tool # "none"
  /\ OperationFails(handleAmadeusError(error))
  /\ UNCHANGED <<tool, params, validated, maxAttempts, attempt, calls>>

\* the backoff timer fires: the next attempt invokes the operation again
BackoffElapses ==
  /\ UNCHANGED <<httpVars, bootVars>>
  /\ pc = "waiting"
  /\ attempt' = attempt + 1
  /\ calls' = calls + 1
  /\ pc' = "awaiting"
  /\ UNCHANGED <<tool, params, validated, maxAttempts, waits, errors, outcome,
                 response, caught, result>>

\* the result has gone back to the caller; the next call can start
ResultSent ==
  /\ UNCHANGED <<httpVars, bootVars>>
  /\ pc = "done"
  /\ pc' = "idle"
  /\ tool' = "none"
  /\ params' = Baseline("get_airlines")
  /\ validated' = FALSE
  /\ maxAttempts' = HandlerMaxAttempts
  /\ attempt' = 0
  /\ calls' = 0
  /\ waits' = << >>
  /\ errors' = << >>
  /\ outcome' = "none"
  /\ response' = NoResponse
  /\ caught' = NoError
  /\ result' = NoResult

(***************************************************************************)
(* withRetry on its own: any operation, any maxAttempts.                   *)
(***************************************************************************)
\* the largest maxAttempts the model passes to withRetry
MaxAttemptsBound == 4
\* the largest maxAttempts passed to withRetry when every attempt fails
MaxBackoffAttempts == 7

\* errors an operation can throw: what the client methods throw, and others
ThrownErrors ==
  { handleAmadeusError(e) :
      e \in SdkErrors \cup {NotFound, PlainFailure,
                            SdkError(TRUE, 500, "none", << >>, FALSE, "", << >>),
                            SdkError(TRUE, 499, "none", << >>, FALSE, "", << >>)} }
  \cup { ValidationFailure,
         JsError("ZodError", "", <<"invalid_type">>, -1),
         JsError("Error", "", << >>, -1),
         JsError("Error", "ECONNRESET", <<"read ECONNRESET">>, -1),
         createAmadeusAPIError(<<"rate limit">>, 429),
         createAmadeusAPIError(<<"forbidden">>, 403) }

\* withRetry(operation, n) is called: attempt 1 invokes the operation
RetryStart(n) ==
  /\ UNCHANGED <<httpVars, bootVars>>
  /\ pc = "idle"
  /\ maxAttempts' = n
  /\ attempt' = 1
  /\ calls' = 1
  /\ pc' = "awaiting"
  /\ UNCHANGED <<tool, params, validated, waits, errors, outcome, response,
                 caught, result>>

OperationThrows(error) ==
  /\ UNCHANGED <<httpVars, bootVars>>
  /\ pc = "awaiting"
  /\ tool = "none"
  /\ OperationFails(error)
  /\ UNCHANGED <<tool, params, validated, maxAttempts, attempt, calls>>

OperationReturns(value) ==
  /\ UNCHANGED <<httpVars, bootVars>>
  /\ pc = "awaiting"
  /\ tool = "none"
  /\ OperationSucceeds(value)
  /\ UNCHANGED <<tool, params, validated, maxAttempts, attempt, calls>>

(***************************************************************************)
(* The formatters on their own: any provider list, up to MaxOverCap        *)
(* entries longer than the display cap.                                    *)
(***************************************************************************)
\* price.total as the provider writes it
Price99 == <<"9", "9", ".", "5", "0">>
Price300Short == <<"3", "0", "0">>
PriceTexts == <<Price99, Price300Short, Price300, Price500>>

ListLengths == 0..(MaxListed + MaxOverCap)

\* a well-formed response carrying the list data
ListResponse(data) == Response(TRUE, TRUE, data, TRUE, Len(data))

\* the list of n offers whose totals are total[1], ..., total[n]
OfferList(n, total) == [i \in 1..n |-> Offer(NumberToString(i), total[i])]

\* the list of n dates whose prices are price[1], ..., price[n]; << >>: no price
DateList(n, price) ==
  [i \in 1..n |-> Entry(NumberToString(i), price[i], price[i] # << >>, TRUE)]

\* the list of n airports or airlines
CodeList(n) == [i \in 1..n |-> Entry(NumberToString(i), << >>, FALSE, TRUE)]

\* one tool for each formatter
FormatterTools ==
  {"search_flights", "search_airports", "get_airlines", "search_flight_cheapest_dates"}

\* the formatter of tool t is applied to a response
FormatResponse(t, r) ==
  /\ UNCHANGED <<httpVars, bootVars>>
  /\ pc = "idle"
  /\ pc' = "done"
  /\ tool' = t
  /\ response' = r
  /\ outcome' = "returned"
  /\ LET formatted == Formatter(t, r)
     IN  /\ result' = formatted
         /\ caught' = IF formatted.threw THEN formatted.error ELSE NoError
  /\ UNCHANGED <<params, validated, maxAttempts, attempt, calls, waits, errors>>

(***************************************************************************)
(* The HTTP server: AmadeusFlightsHTTPServer.  A session ID, like every    *)
(* value of the mcp-session-id header, is a text; << >> is the absent (or  *)
(* empty) header.  Transports and server instances are numbered in the     *)
(* order of their creation; the server instance created for transport k    *)
(* has number k.                                                           *)
(***************************************************************************)
NoHeader == << >>
Undefined == <<"undefined">>

\* the n-th ID of the session ID generator
Uuid(n) == <<"uuid">> \o NumberToString(n)

\* an ID generator that hands out one ID again and again
randomUUIDRepeats(n) == Uuid(1)

\* randomUUID(): an ID that was never handed out before
randomUUID(n) == Uuid(n + 1)

\* header values that name no session: an arbitrary text, and names of
\* properties every object inherits from Object.prototype
UnknownId == <<"unknown">>
ObjectPrototypeKeys == {<<"constructor">>, <<"toString">>}

SessionHeaders ==
  {NoHeader, UnknownId} \cup ObjectPrototypeKeys
    \cup {Uuid(n) : n \in 1..MaxSessions}

Request(method, header, isInitialize) ==
  [method |-> method, header |-> header, isInitialize |-> isInitialize]

NoRequest == Request("none", NoHeader, FALSE)

\* the object literal {}
EmptyObject == [key \in {} |-> 0]

\* object[key]: an own property, else a property inherited from
\* Object.prototype (a function, truthy), else undefined
Lookup(object, key) ==
  IF key \in DOMAIN object
  THEN [truthy |-> TRUE, own |-> TRUE, value |-> object[key]]
  ELSE [truthy |-> key \in ObjectPrototypeKeys, own |-> FALSE, value |-> 0]

\* object[key] = value
Put(object, key, value) ==
  [x \in DOMAIN object \cup {key} |-> IF x = key THEN value ELSE object[x]]

\* delete object[key]
Delete(object, key) == [x \in DOMAIN object \ {key} |-> object[x]]

\* Object.keys(this.transports).length
activeSessions == Cardinality(DOMAIN transports)

InitHttp ==
  /\ created = 0
  /\ phase = << >>
  /\ sessionId = << >>
  /\ transports = EmptyObject
  /\ servers = EmptyObject
  /\ generated = 0
  /\ lastRequest = NoRequest
  /\ lastStatus = 0
  /\ health = -1
  /\ streams = {}
  /\ inflight = << >>
  /\ listeners = 0
  /\ proc = "running"
  /\ stopState = "idle"
  /\ registered = << >>
  /\ position = 0
  /\ attempts = << >>

\* a callback that keeps only the new session
onsessioninitializedAlone(map, id, k) == Put(EmptyObject, id, k)

\* onsessioninitialized: this.transports[sessionId] = transport
onsessioninitialized(map, id, k) == Put(map, id, k)

\* a closure that leaves the maps as they are
oncloseKeepsEntry(k) ==
  /\ phase' = [phase EXCEPT ![k] = "closed"]
  /\ UNCHANGED <<transports, servers>>

\* transport.onclose of transport k
onclose(k) ==
  /\ phase' = [phase EXCEPT ![k] = "closed"]
  /\ IF sessionId[k] # Undefined
     THEN /\ transports' = Delete(transports, sessionId[k])
          /\ servers' = Delete(servers, sessionId[k])
     ELSE UNCHANGED <<transports, servers>>

\* the answer 400, nothing else done
BadRequest400 ==
  /\ lastStatus' = 400
  /\ UNCHANGED <<created, phase, sessionId, transports, servers, generated,
                 streams, inflight, listeners>>

\* transport.handleRequest is called on a value that is no transport: the
\* TypeError is caught by the route, which answers 500
InternalError500 ==
  /\ lastStatus' = 500
  /\ UNCHANGED <<created, phase, sessionId, transports, servers, generated,
                 streams, inflight, listeners>>

\* the requests being processed, of the transports 1..n
RECURSIVE processing(_)
processing(n) == IF n = 0 THEN 0 ELSE inflight[n] + processing(n - 1)

\* setupErrorHandling, run by the constructor of every server instance:
\* one more uncaughtException and one more unhandledRejection listener
setupErrorHandling(n) == n + 1

\* POST /mcp: handleMCPRequest up to its first await
handleMCPRequest(header, isInitialize) ==
  /\ UNCHANGED <<toolVars, bootVars, stopVars>>
  /\ proc = "running"
  /\ lastRequest' = Request("POST", header, isInitialize)
  /\ health' = -1
  /\ UNCHANGED proc
  /\ LET transport == Lookup(transports, header)
     IN  IF header # NoHeader /\ transport.truthy
         THEN IF transport.own
              THEN IF isInitialize
                   \* the session's transport refuses a second initialization
                   THEN BadRequest400
                   \* the transport hands the request to the server instance,
                   \* which starts to process it; nothing waits for the
                   \* requests of the session already being processed
                   ELSE /\ processing(created) < MaxInFlight
                        /\ inflight' =
                             [inflight EXCEPT ![transport.value] = @ + 1]
                        /\ lastStatus' = 0
                        /\ UNCHANGED <<created, phase, sessionId, transports,
                                       servers, generated, streams, listeners>>
              ELSE InternalError500
         ELSE IF header = NoHeader /\ isInitialize
         THEN /\ created < MaxSessions
              /\ created' = created + 1
              /\ phase' = Append(phase, "connecting")
              /\ sessionId' = Append(sessionId, Undefined)
              /\ inflight' = Append(inflight, 0)
              /\ listeners' = setupErrorHandling(listeners)
              /\ lastStatus' = 0
              /\ UNCHANGED <<transports, servers, generated, streams>>
         ELSE BadRequest400

\* mcpServer.connect(transport) for the new transport k: the server instance
\* is attached to the transport, which generates no session ID yet, and the
\* promise resolves
connect(k) == k \in 1..created /\ phase[k] = "connecting"

\* the rest of handleMCPRequest for the new transport k, once
\* mcpServer.connect has resolved: the server instance is stored, the
\* transport handles the initialization request, generates its session ID
\* and calls onsessioninitialized
InitializeCompletes(k) ==
  /\ UNCHANGED <<toolVars, bootVars, stopVars>>
  /\ proc # "exited"
  /\ connect(k)
  /\ LET id == randomUUID(generated)
     IN  /\ servers' = Put(servers, sessionId[k], k)
         /\ generated' = generated + 1
         /\ sessionId' = [sessionId EXCEPT ![k] = id]
         /\ transports' = onsessioninitialized(transports, id, k)
  /\ phase' = [phase EXCEPT ![k] = "open"]
  /\ lastRequest' = Request("POST", NoHeader, TRUE)
  /\ lastStatus' = 200
  /\ health' = -1
  /\ UNCHANGED <<created, streams, inflight, listeners, proc>>

\* every request of transport k being processed is answered in one step
RequestCompletesAll(k) ==
  /\ UNCHANGED <<toolVars, bootVars, stopVars>>
  /\ proc # "exited"
  /\ k \in 1..created
  /\ inflight[k] > 0
  /\ inflight' = [inflight EXCEPT ![k] = 0]
  /\ lastRequest' = Request("POST", sessionId[k], FALSE)
  /\ lastStatus' = 200
  /\ health' = -1
  /\ UNCHANGED <<created, phase, sessionId, transports, servers, generated,
                 streams, listeners, proc>>

\* a request of transport k that was being processed is answered; the
\* answer of a tool call is the handler's, after its provider call, its
\* retries and its backoff waits
RequestCompletes(k) ==
  /\ UNCHANGED <<toolVars, bootVars, stopVars>>
  /\ proc # "exited"
  /\ k \in 1..created
  /\ inflight[k] > 0
  /\ inflight' = [inflight EXCEPT ![k] = @ - 1]
  /\ lastRequest' = Request("POST", sessionId[k], FALSE)
  /\ lastStatus' = 200
  /\ health' = -1
  /\ UNCHANGED <<created, phase, sessionId, transports, servers, generated,
                 streams, listeners, proc>>

\* GET /mcp and DELETE /mcp: handleSessionRequest; the transport of the
\* session answers: it opens the session's stream on GET and closes on
\* DELETE
handleSessionRequest(method, header) ==
  /\ UNCHANGED <<toolVars, bootVars, stopVars>>
  /\ proc = "running"
  /\ lastRequest' = Request(method, header, FALSE)
  /\ health' = -1
  /\ UNCHANGED proc
  /\ LET transport == Lookup(transports, header)
     IN  IF header = NoHeader \/ ~transport.truthy
         THEN BadRequest400
         ELSE IF ~transport.own
         THEN InternalError500
         ELSE /\ lastStatus' = 200
              /\ IF method = "DELETE"
                 THEN /\ onclose(transport.value)
                      /\ streams' = streams \ {transport.value}
                      /\ UNCHANGED <<created, sessionId, generated, inflight,
                                     listeners>>
                 ELSE /\ streams' = streams \cup {transport.value}
                      /\ UNCHANGED <<created, phase, sessionId, transports,
                                     servers, generated, inflight, listeners>>

\* the client of transport k ends the session's GET stream
StreamCloses(k) ==
  /\ UNCHANGED <<toolVars, bootVars, stopVars>>
  /\ proc # "exited"
  /\ k \in streams
  /\ streams' = streams \ {k}
  /\ UNCHANGED <<created, phase, sessionId, transports, servers, generated,
                 lastRequest, lastStatus, health, inflight, listeners, proc>>

\* a closure that also ends the tool call in progress
TransportClosesAborts(k) ==
  /\ UNCHANGED <<bootVars, stopVars>>
  /\ proc # "exited"
  /\ k \in 1..created
  /\ phase[k] = "open"
  /\ onclose(k)
  /\ streams' = streams \ {k}
  /\ UNCHANGED <<created, sessionId, generated, lastRequest, lastStatus,
                 health, inflight, listeners, proc>>
  /\ pc' = IF pc \in {"awaiting", "waiting"} THEN "done" ELSE pc
  /\ UNCHANGED <<tool, params, validated, maxAttempts, attempt, calls, waits,
                 errors, outcome, response, caught, result>>

\* an open transport closes for another reason
TransportCloses(k) ==
  /\ UNCHANGED <<toolVars, bootVars, stopVars>>
  /\ proc # "exited"
  /\ k \in 1..created
  /\ phase[k] = "open"
  /\ onclose(k)
  /\ streams' = streams \ {k}
  /\ UNCHANGED <<created, sessionId, generated, lastRequest, lastStatus,
                 health, inflight, listeners, proc>>

\* GET /health
Health ==
  /\ UNCHANGED <<toolVars, bootVars, stopVars>>
  /\ proc = "running"
  /\ lastRequest' = Request("HEALTH", NoHeader, FALSE)
  /\ lastStatus' = 200
  /\ health' = activeSessions
  /\ UNCHANGED <<created, phase, sessionId, transports, servers, generated,
                 streams, inflight, listeners, proc>>

\* the SIGINT and SIGTERM handlers of start: server.close stops the
\* listening socket; nothing is done to the sessions
Signal ==
  /\ UNCHANGED <<toolVars, bootVars, stopVars>>
  /\ proc = "running"
  /\ proc' = "closing"
  /\ UNCHANGED <<created, phase, sessionId, transports, servers, generated,
                 lastRequest, lastStatus, health, streams, inflight, listeners>>

\* the callback of server.close, called once no connection is left open:
\* process.exit(0)
ServerClosed ==
  /\ UNCHANGED <<toolVars, bootVars, stopVars>>
  /\ proc = "closing"
  /\ streams = {}
  /\ \A k \in 1..created : inflight[k] = 0 /\ phase[k] # "connecting"
  /\ proc' = "exited"
  /\ UNCHANGED <<created, phase, sessionId, transports, servers, generated,
                 lastRequest, lastStatus, health, streams, inflight, listeners>>

\* Object.entries of a map whose values are transports: the entries in
\* the order of their insertion, which is the order of creation
RECURSIVE entries(_, _)
entries(map, n) ==
  IF n = 0 THEN << >>
  ELSE IF \E key \in DOMAIN map : map[key] = n
       THEN Append(entries(map, n - 1), n)
       ELSE entries(map, n - 1)

\* an error of transport.close that leaves the loop of stop()
closeUncaught(k) ==
  /\ attempts' = (k :> "threw") @@ attempts
  /\ position' = Len(registered)

\* the catch block of the loop of stop(): the error is logged and the loop
\* goes on
closeCaught(k) ==
  /\ attempts' = (k :> "threw") @@ attempts
  /\ position' = position + 1

\* stop() up to its first await: the loop starts on the entries of
\* this.transports
stop ==
  /\ UNCHANGED <<toolVars, bootVars>>
  /\ proc # "exited"
  /\ stopState # "closing"
  /\ stopState' = "closing"
  /\ registered' = entries(transports, created)
  /\ position' = 0
  /\ attempts' = << >>
  /\ UNCHANGED <<created, phase, sessionId, transports, servers, generated,
                 lastRequest, lastStatus, health, streams, inflight, listeners,
                 proc>>

\* one turn of the loop of stop(): await transport.close(), which runs
\* onclose, or throws
stopClosesTransport(throws) ==
  /\ UNCHANGED <<toolVars, bootVars>>
  /\ stopState = "closing"
  /\ position < Len(registered)
  /\ LET k == registered[position + 1]
     IN IF throws
        THEN /\ closeCaught(k)
             /\ UNCHANGED <<phase, transports, servers, streams>>
        ELSE /\ attempts' = (k :> "closed") @@ attempts
             /\ position' = position + 1
             /\ onclose(k)
             /\ streams' = streams \ {k}
  /\ UNCHANGED <<created, sessionId, generated, lastRequest, lastStatus,
                 health, inflight, listeners, proc, stopState, registered>>

\* stop() after its loop: both maps are replaced by empty ones
stopResolves ==
  /\ UNCHANGED <<toolVars, bootVars>>
  /\ stopState = "closing"
  /\ position = Len(registered)
  /\ transports' = EmptyObject
  /\ servers' = EmptyObject
  /\ stopState' = "done"
  /\ UNCHANGED <<created, phase, sessionId, generated, lastRequest,
                 lastStatus, health, streams, inflight, listeners, proc,
                 registered, position, attempts>>

(***************************************************************************)
(* The stdio entry point (index.ts): loadConfig and main.                  *)
(***************************************************************************)
EnvNames ==
  {"AMADEUS_CLIENT_ID", "AMADEUS_CLIENT_SECRET", "AMADEUS_ENVIRONMENT",
   "MCP_SERVER_NAME"}

\* the values a variable can have in an environment the entry point is
\* launched in: unset, or a text
EnvValues(name) ==
  CASE name = "AMADEUS_ENVIRONMENT" ->
         {VUndef, VStr(<<"test">>), VStr(<<"production">>)}
    [] name = "MCP_SERVER_NAME" -> {VUndef, VStr(<<"flights">>)}
    [] OTHER -> {VUndef, VStr(<< >>), VStr(<<"k", "e", "y">>)}

Environments == {e \in [EnvNames -> UNION {EnvValues(name) : name \in EnvNames}] :
                   \A name \in EnvNames : e[name] \in EnvValues(name)}

NoEnv == [name \in EnvNames |-> VUndef]
NoConfig == [clientId |-> VUndef, clientSecret |-> VUndef,
             environment |-> VUndef, name |-> VUndef]

\* a || b
Or(a, b) == IF Truthy(a) THEN a ELSE b

\* a check that looks at the client ID only
missingVarsIdOnly(e) == {name \in {"AMADEUS_CLIENT_ID"} : ~Truthy(e[name])}

\* requiredEnvVars.filter(varName => !process.env[varName])
missingVars(e) ==
  {name \in {"AMADEUS_CLIENT_ID", "AMADEUS_CLIENT_SECRET"} : ~Truthy(e[name])}

\* loadConfig(): exit: process.exit(1) was called
loadConfig(e) ==
  IF missingVars(e) # {}
  THEN [exit |-> TRUE, config |-> NoConfig]
  ELSE [exit |-> FALSE,
        config |-> [clientId |-> e["AMADEUS_CLIENT_ID"],
                    clientSecret |-> e["AMADEUS_CLIENT_SECRET"],
                    environment |-> Or(e["AMADEUS_ENVIRONMENT"], VStr(<<"test">>)),
                    name |-> Or(e["MCP_SERVER_NAME"],
                                VStr(<<"amadeus-flights-server">>))]]

InitBoot ==
  /\ env = NoEnv
  /\ boot = "unstarted"
  /\ config = NoConfig
  /\ instances = 0
  /\ stdio = "none"
  /\ exitCode = -1

\* the entry point is launched in some environment
Launch(e) ==
  /\ UNCHANGED <<toolVars, httpVars>>
  /\ boot = "unstarted"
  /\ env' = e
  /\ boot' = "main"
  /\ UNCHANGED <<config, instances, stdio, exitCode>>

\* main() up to its await: loadConfig, the server instance, the signal
\* handlers, and server.start() up to the await of server.connect
main ==
  /\ UNCHANGED <<toolVars, httpVars>>
  /\ boot = "main"
  /\ LET loaded == loadConfig(env)
     IN  IF loaded.exit
         THEN /\ boot' = "exited"
              /\ exitCode' = 1
              /\ UNCHANGED <<env, config, instances, stdio>>
         ELSE /\ config' = loaded.config
              /\ instances' = instances + 1
              /\ stdio' = "connecting"
              /\ boot' = "starting"
              /\ UNCHANGED <<env, exitCode>>

\* server.connect resolves: start() returns and main ends
StartResolves ==
  /\ UNCHANGED <<toolVars, httpVars>>
  /\ boot = "starting"
  /\ stdio' = "connected"
  /\ boot' = "running"
  /\ UNCHANGED <<env, config, instances, exitCode>>

\* server.connect rejects: the catch block of main
StartRejects ==
  /\ UNCHANGED <<toolVars, httpVars>>
  /\ boot = "starting"
  /\ stdio' = "failed"
  /\ boot' = "exited"
  /\ exitCode' = 1
  /\ UNCHANGED <<env, config, instances>>

\* SIGINT or SIGTERM, once main has registered its handlers: server.stop()
\* is awaited
ShutdownSignal ==
  /\ UNCHANGED <<toolVars, httpVars>>
  /\ boot \in {"starting", "running"}
  /\ boot' = "stopping"
  /\ UNCHANGED <<env, config, instances, stdio, exitCode>>

\* server.stop() resolves: process.exit(0)
StopResolves ==
  /\ UNCHANGED <<toolVars, httpVars>>
  /\ boot = "stopping"
  /\ stdio' = "closed"
  /\ boot' = "exited"
  /\ exitCode' = 0
  /\ UNCHANGED <<env, config, instances>>

vars == <<toolVars, httpVars, bootVars>>

Init == Idle /\ InitHttp /\ InitBoot

\* a client calls a tool with some input
ToolCalled ==
  /\ pc = "idle"
  /\ \E t \in ToolNames : \E p \in ToolInputs(t) : CallTool(t, p)

Next ==
  \/ ToolCalled
  \/ \E r \in SdkResponses : SdkResolves(r)
  \/ \E e \in SdkErrors : SdkRejects(e)
  \/ BackoffElapses
  \/ ResultSent

\* the tool handlers
Spec == Init /\ [][Next]_vars

NextRetry ==
  \/ \E n \in 1..MaxAttemptsBound : RetryStart(n)
  \/ \E e \in ThrownErrors : OperationThrows(e)
  \/ \E r \in SdkResponses : OperationReturns(r)
  \/ BackoffElapses
  \/ ResultSent

\* withRetry on its own
SpecRetry == Init /\ [][NextRetry]_vars

\* formatFlightOffers on a list of offers priced with two neighbouring price texts
FormatOffers ==
  /\ pc = "idle"
  /\ \E n \in ListLengths : \E a \in 1..(Len(PriceTexts) - 1) :
       \E total \in [1..n -> {PriceTexts[a], PriceTexts[a + 1]}] :
         FormatResponse("search_flights", ListResponse(OfferList(n, total)))

\* formatFlightCheapestDates on a list of dates, priced or not
FormatDates ==
  /\ pc = "idle"
  /\ \E n \in ListLengths : \E price \in [1..n -> {Price300, << >>}] :
       FormatResponse("search_flight_cheapest_dates", ListResponse(DateList(n, price)))

\* formatAirports and formatAirlines on a list
FormatCodes ==
  /\ pc = "idle"
  /\ \E n \in ListLengths : \E t \in {"search_airports", "get_airlines"} :
       FormatResponse(t, ListResponse(CodeList(n)))

NextFormat ==
  \/ \E t \in FormatterTools : \E r \in SdkResponses : FormatResponse(t, r)
  \/ FormatOffers
  \/ FormatDates
  \/ FormatCodes
  \/ ResultSent

\* errors that withRetry classifies as retryable
RetryableErrors ==
  {handleAmadeusError(ServiceUnavailable), handleAmadeusError(NoConnection)}

NextBackoff ==
  \/ \E n \in 1..MaxBackoffAttempts : RetryStart(n)
  \/ \E e \in RetryableErrors : OperationThrows(e)
  \/ BackoffElapses
  \/ ResultSent

\* withRetry on an operation that keeps failing with retryable errors
SpecBackoff == Init /\ [][NextBackoff]_vars

NextStartup ==
  \/ \E e \in Environments : Launch(e)
  \/ main
  \/ StartResolves
  \/ StartRejects
  \/ ShutdownSignal
  \/ StopResolves

\* the stdio entry point
SpecStartup == Init /\ [][NextStartup]_vars

\* a valid call of a tool that retries
ValidToolCalled ==
  /\ pc = "idle"
  /\ \E t \in {"search_flights", "search_airports"} : CallTool(t, Baseline(t))

NextCancel ==
  \/ ValidToolCalled
  \/ \E r \in SdkResponses : SdkResolves(r)
  \/ \E e \in {ServiceUnavailable, BadRequest} : SdkRejects(e)
  \/ BackoffElapses
  \/ ResultSent
  \/ handleMCPRequest(NoHeader, TRUE)
  \/ \E k \in 1..MaxSessions : InitializeCompletes(k)
  \/ \E k \in 1..MaxSessions : handleSessionRequest("DELETE", Uuid(k))
  \/ \E k \in 1..MaxSessions : TransportCloses(k)

\* tool calls while sessions are initialized and closed
SpecCancel == Init /\ [][NextCancel]_vars

\* the formatters on their own
SpecFormat == Init /\ [][NextFormat]_vars

NextHttp ==
  \/ \E header \in SessionHeaders : \E isInitialize \in BOOLEAN :
       handleMCPRequest(header, isInitialize)
  \/ \E k \in 1..MaxSessions : InitializeCompletes(k)
  \/ \E method \in {"GET", "DELETE"} : \E header \in SessionHeaders :
       handleSessionRequest(method, header)
  \/ \E k \in 1..MaxSessions : RequestCompletes(k)
  \/ \E k \in 1..MaxSessions : StreamCloses(k)
  \/ \E k \in 1..MaxSessions : TransportCloses(k)
  \/ Health

\* the HTTP server
SpecHttp == Init /\ [][NextHttp]_vars

NextShutdown ==
  \/ NextHttp
  \/ Signal
  \/ ServerClosed

\* the HTTP server and the shutdown signals
SpecShutdown == Init /\ [][NextShutdown]_vars

\* what the server does by itself, whatever its clients do: requests in
\* progress are answered, and the callback of server.close runs once no
\* connection is left
ServerProgress ==
  /\ WF_vars(ServerClosed)
  /\ \A k \in 1..MaxSessions :
       WF_vars(RequestCompletes(k)) /\ WF_vars(InitializeCompletes(k))

\* the HTTP server and the shutdown signals, the server's own steps being
\* taken when they stay possible; no client is bound to end its stream
SpecShutdownFair == SpecShutdown /\ ServerProgress

NextStop ==
  \/ handleMCPRequest(NoHeader, TRUE)
  \/ \E k \in 1..MaxSessions : InitializeCompletes(k)
  \/ \E k \in 1..MaxSessions : handleSessionRequest("GET", Uuid(k))
  \/ \E k \in 1..MaxSessions : TransportCloses(k)
  \/ stop
  \/ \E throws \in BOOLEAN : stopClosesTransport(throws)
  \/ stopResolves

\* the HTTP server while stop() runs
SpecStop == Init /\ [][NextStop]_vars

(***************************************************************************)
(* The documented constraints on the tool inputs, stated on their own: by  *)
(* the value a date denotes rather than by string order, and field by      *)
(* field rather than through Zod's verdicts.                               *)
(***************************************************************************)
Absent(v) == v.t = "undef"
IsIntegerIn(v, lo, hi) == v.t = "int" /\ v.n >= lo /\ v.n <= hi
IsTextOfLength(v, k) == v.t = "str" /\ Len(v.s) = k
IsNonEmptyText(v) == v.t = "str" /\ Len(v.s) >= 1
IsDateText(v) == v.t = "str" /\ MatchesDate(v.s)
IsOneOf(v, members) == v.t = "str" /\ v.s \in members
IsPositiveNumber(v) == IsNumber(v) /\ GreaterThanZero(v)
\* the day a YYYY-MM-DD text denotes, as the number YYYYMMDD
DayNumber(s) ==
  10000 * parseInt(SubSeq(s, 1, 4)) + 100 * parseInt(SubSeq(s, 6, 7))
    + parseInt(SubSeq(s, 9, 10))
\* no return date, or one that is a date strictly after the departure date
ReturnsAfterDeparture(p) ==
  Absent(p["returnDate"])
    \/ (IsDateText(p["returnDate"]) /\ IsDateText(p["departureDate"])
          /\ DayNumber(p["returnDate"].s) > DayNumber(p["departureDate"].s))

MeetsConstraints(t, p) ==
  CASE t = "search_flights" ->
         /\ IsTextOfLength(p["origin"], 3) /\ IsTextOfLength(p["destination"], 3)
         /\ IsDateText(p["departureDate"])
         /\ ReturnsAfterDeparture(p)
         /\ IsIntegerIn(p["adults"], 1, 9)
         /\ (Absent(p["children"]) \/ IsIntegerIn(p["children"], 0, 8))
         /\ (Absent(p["infants"]) \/ IsIntegerIn(p["infants"], 0, 8))
         /\ (Absent(p["travelClass"]) \/ IsOneOf(p["travelClass"], TravelClasses))
         /\ (Absent(p["nonStop"]) \/ p["nonStop"].t = "bool")
         /\ (Absent(p["maxPrice"]) \/ IsPositiveNumber(p["maxPrice"]))
         /\ (Absent(p["currencyCode"]) \/ IsTextOfLength(p["currencyCode"], 3))
         /\ (Absent(p["max"]) \/ IsIntegerIn(p["max"], 1, 250))
    [] t = "get_flight_offers" -> IsNonEmptyText(p["offerId"])
    [] t = "search_airports" ->
         /\ IsNonEmptyText(p["keyword"]) /\ Len(p["keyword"].s) <= 100
         /\ (Absent(p["countryCode"]) \/ IsTextOfLength(p["countryCode"], 2))
         /\ (Absent(p["max"]) \/ IsIntegerIn(p["max"], 1, 100))
    [] t = "get_airlines" ->
         /\ (Absent(p["airlineCodes"]) \/ p["airlineCodes"].t = "str")
         /\ (Absent(p["max"]) \/ IsIntegerIn(p["max"], 1, 100))
    [] t = "search_multi_city_flights" ->
         LET legs == p["originDestinations"]
             travelers == p["travelers"]
             sources == p["sources"]
             cabins == p["cabinRestrictions"]
         IN  /\ legs.t = "arr" /\ Len(legs.e) \in 1..6
             /\ \A i \in 1..Len(legs.e) :
                  /\ IsNonEmptyText(legs.e[i].e[1])
                  /\ IsTextOfLength(legs.e[i].e[2], 3)
                  /\ IsTextOfLength(legs.e[i].e[3], 3)
                  /\ IsDateText(legs.e[i].e[4])
                  /\ (Absent(legs.e[i].e[5])
                        \/ (legs.e[i].e[5].t = "str" /\ MatchesTime(legs.e[i].e[5].s)))
             /\ travelers.t = "arr" /\ Len(travelers.e) \in 1..9
             /\ \A i \in 1..Len(travelers.e) :
                  /\ IsNonEmptyText(travelers.e[i].e[1])
                  /\ IsOneOf(travelers.e[i].e[2], TravelerTypes)
             /\ (Absent(sources)
                   \/ (sources.t = "arr" /\ Len(sources.e) >= 1
                         /\ \A i \in 1..Len(sources.e) : sources.e[i] = VStr(<<"GDS">>)))
             /\ (Absent(p["maxFlightOffers"]) \/ IsIntegerIn(p["maxFlightOffers"], 1, 250))
             /\ (Absent(cabins)
                   \/ (cabins.t = "arr"
                         /\ \A i \in 1..Len(cabins.e) :
                              /\ IsOneOf(cabins.e[i].e[1], TravelClasses)
                              /\ IsOneOf(cabins.e[i].e[2], Coverages)))
    [] t = "search_flight_cheapest_dates" ->
         /\ IsTextOfLength(p["origin"], 3) /\ IsTextOfLength(p["destination"], 3)
         /\ IsDateText(p["departureDate"])
         /\ ReturnsAfterDeparture(p)
         /\ (Absent(p["oneWay"]) \/ p["oneWay"].t = "bool")
         /\ (Absent(p["nonStop"]) \/ p["nonStop"].t = "bool")
         /\ (Absent(p["duration"])
               \/ (p["duration"].t = "str" /\ MatchesDuration(p["duration"].s)))
         /\ (Absent(p["viewBy"]) \/ IsOneOf(p["viewBy"], ViewBys))
         /\ (Absent(p["maxPrice"]) \/ IsPositiveNumber(p["maxPrice"]))
         /\ (Absent(p["aggregationMode"]) \/ IsOneOf(p["aggregationMode"], AggregationModes))

\* the result is a text message that begins with 'Error:'
IsErrorText(res) == ~res.threw /\ res.text # << >> /\ res.text[1] = "Error:"

IsTransient(e) ==
  \/ e.code = "NETWORK_ERROR"
  \/ /\ e.code = "AMADEUS_API_ERROR"
     /\ (e.statusCode >= 500 \/ e.statusCode = 429 \/ e.statusCode = 408)

\* a validation error, or a provider 4xx other than 429/408
IsPermanent(e) ==
  \/ e.code = "VALIDATION_ERROR"
  \/ /\ e.code = "AMADEUS_API_ERROR"
     /\ e.statusCode >= 400 /\ e.statusCode <= 499
     /\ e.statusCode \notin {429, 408}

AllTransient(es) == \A i \in 1..Len(es) : IsTransient(es[i])

TwoOffers ==
  Response(TRUE, TRUE, <<Offer(<<"1">>, Price500), Offer(<<"2">>, Price300)>>, TRUE, 2)

(***************************************************************************)
(* C2: withRetry, when the operation fails with a retryable error on its   *)
(* first k attempts, k < maxAttempts, and then succeeds, has invoked the   *)
(* operation exactly k+1 times, has waited k times, and returns the value  *)
(* of the successful invocation.  While only retryable errors have been    *)
(* seen and attempts are left, withRetry is waiting for, or in, the next   *)
(* attempt.                                                                *)
(***************************************************************************)
C2_RetriesThenReturns ==
  /\ [](/\ (pc # "idle" /\ AllTransient(errors) /\ Len(errors) < maxAttempts =>
              \/ pc = "waiting" /\ calls = Len(errors)
              \/ pc = "awaiting" /\ calls = Len(errors) + 1
              \/ pc = "done" /\ outcome = "returned")
        /\ (pc = "done" /\ outcome = "returned" =>
              /\ AllTransient(errors) /\ Len(errors) < maxAttempts
              /\ calls = Len(errors) + 1
              /\ Len(waits) = Len(errors)
              /\ caught = NoError))
  /\ [][\A r \in SdkResponses :
          OperationReturns(r) => pc' = "done" /\ response' = r]_vars

\* two 503 failures, then a success on the third of three attempts
C2_Witness ==
  /\ pc = "done" /\ outcome = "returned" /\ tool = "none"
  /\ maxAttempts = 3 /\ calls = 3 /\ Len(waits) = 2
  /\ Len(errors) = 2
  /\ errors[1].statusCode = 503 /\ errors[2].statusCode = 503
  /\ response = TwoOffers

(***************************************************************************)
(* C3: withRetry, when an attempt fails with a non-retryable error (a      *)
(* validation error, or a provider 4xx other than 429/408), throws that    *)
(* error at once: no wait follows it and no further invocation; when it is *)
(* the first attempt, the operation was invoked exactly once and no        *)
(* backoff wait took place.                                                *)
(***************************************************************************)
C3_PermanentErrorPropagates ==
  /\ (errors # << >> /\ IsPermanent(errors[Len(errors)]) =>
        /\ pc = "done" /\ outcome = "threw"
        /\ caught = errors[Len(errors)]
        /\ calls = Len(errors)
        /\ Len(waits) = Len(errors) - 1)
  /\ (errors # << >> /\ IsPermanent(errors[1]) =>
        calls = 1 /\ attempt = 1 /\ waits = << >> /\ Len(errors) = 1)

\* a 400 on the first of three attempts
C3_Witness ==
  /\ pc = "done" /\ outcome = "threw" /\ tool = "none"
  /\ maxAttempts = 3 /\ calls = 1 /\ waits = << >>
  /\ Len(errors) = 1
  /\ caught.code = "AMADEUS_API_ERROR" /\ caught.statusCode = 400

(***************************************************************************)
(* C4: withRetry, when every one of the maxAttempts attempts fails with a  *)
(* retryable error, has invoked the operation exactly maxAttempts times    *)
(* and throws the error of the last attempt; the operation is never        *)
(* invoked more than maxAttempts times.                                    *)
(***************************************************************************)
C4_ExhaustionThrowsLastError ==
  /\ calls <= maxAttempts /\ Len(errors) <= maxAttempts
  /\ (Len(errors) = maxAttempts /\ AllTransient(errors) =>
        /\ pc = "done" /\ outcome = "threw"
        /\ calls = maxAttempts
        /\ Len(waits) = maxAttempts - 1
        /\ caught = errors[maxAttempts])

\* three retryable failures, the last one different from the first
C4_Witness ==
  /\ pc = "done" /\ outcome = "threw" /\ tool = "none"
  /\ maxAttempts = 3 /\ calls = 3
  /\ Len(errors) = 3 /\ AllTransient(errors)
  /\ errors[1] # errors[3]
  /\ caught = errors[3]

(***************************************************************************)
(* What the provider's rejection is, read from the rejection itself.       *)
(***************************************************************************)
\* a transport-level failure: a request was sent and no response came
IsNetworkFailure(e) == ~e.hasResponse /\ e.hasRequest

\* a response with HTTP status >= 500, 429 or 408
IsTransientStatus(e) ==
  e.hasResponse /\ (e.status >= 500 \/ e.status = 429 \/ e.status = 408)

\* the rejection's status, if it carries a response, is known
HasKnownStatus(e) == e.hasResponse => e.status >= 0

(***************************************************************************)
(* C5: a failed provider call is retried exactly when the failure is a     *)
(* network error or a provider error with status >= 500, 429 or 408:       *)
(* whenever the SDK rejects a call of a tool that uses withRetry and       *)
(* attempts are left, a backoff wait follows if and only if the rejection  *)
(* is of that kind.  (Rejections whose response carries no status are left *)
(* out here.)                                                              *)
(***************************************************************************)
C5_RetriedExactlyWhenTransient ==
  [][\A e \in SdkErrors :
       (SdkRejects(e) /\ UsesRetry(tool) /\ attempt < maxAttempts
          /\ HasKnownStatus(e))
       => ((pc' = "waiting") <=> (IsNetworkFailure(e) \/ IsTransientStatus(e)))]_vars

(***************************************************************************)
(* C6: every tool call ends with a result whose content is a text; when    *)
(* anything failed in it (validation, the provider, the network, an        *)
(* unclassified error, a malformed response), the text begins with         *)
(* "Error:", and no exception leaves the tool callback.                    *)
(***************************************************************************)
C6_FailuresBecomeErrorText ==
  pc = "done" =>
    /\ ~result.threw
    /\ result.text # << >>
    /\ (caught # NoError => IsErrorText(result))
    /\ (caught = NoError => outcome = "returned")

\* the formatter threw on a malformed provider response
C6_Witness ==
  /\ pc = "done" /\ outcome = "returned"
  /\ caught.name = "TypeError"
  /\ IsErrorText(result)

(***************************************************************************)
(* The numeric value of a price text, read from the provider's text: the   *)
(* digits before the point and up to two digits after it, in hundredths.   *)
(***************************************************************************)
PointAt(text) ==
  IF \E i \in 1..Len(text) : text[i] = "."
  THEN CHOOSE i \in 1..Len(text) : text[i] = "." /\ \A j \in 1..(i - 1) : text[j] # "."
  ELSE Len(text) + 1

DecimalValue(text) ==
  LET point == PointAt(text)
      fraction == SubSeq(text, point + 1, Len(text))
  IN  100 * parseInt(SubSeq(text, 1, point - 1))
        + (IF Len(fraction) >= 1 THEN 10 * DigitVal(fraction[1]) ELSE 0)
        + (IF Len(fraction) >= 2 THEN DigitVal(fraction[2]) ELSE 0)

\* the position in the provider's list of the entry with this id
PositionOf(id) == CHOOSE i \in 1..Len(response.data) : response.data[i].id = id

\* the provider's numeric total of the k-th listed offer
ListedValue(k) == DecimalValue(response.data[PositionOf(result.list[k].id)].total)

ListedPositions == {PositionOf(result.list[k].id) : k \in 1..Len(result.list)}

FormatsOffers == pc = "done" /\ tool = "search_flights" /\ ~result.threw

(***************************************************************************)
(* C7: formatFlightOffers lists offers of the provider's list, each at     *)
(* most once, in non-decreasing order of their numeric total price; when   *)
(* the provider's list has more than 10 offers, 10 are listed and no       *)
(* unlisted offer is cheaper than a listed one.                            *)
(***************************************************************************)
C7_OffersCheapestFirst ==
  FormatsOffers =>
    /\ \A k \in 1..Len(result.list) :
         \E i \in 1..Len(response.data) :
           /\ response.data[i].id = result.list[k].id
           /\ result.list[k].price = <<"U", "S", "D", " ">> \o response.data[i].total
    /\ \A k, l \in 1..Len(result.list) :
         k # l => result.list[k].id # result.list[l].id
    /\ \A k \in 1..(Len(result.list) - 1) : ListedValue(k) <= ListedValue(k + 1)
    /\ Len(result.list) = (IF Len(response.data) > 10 THEN 10 ELSE Len(response.data))
    /\ \A i \in (1..Len(response.data)) \ ListedPositions :
         \A k \in 1..Len(result.list) :
           ListedValue(k) <= DecimalValue(response.data[i].total)

\* eleven offers, the first priced 500, the last priced 300: the last one is
\* listed first and one offer priced 500 is cut
C7_Witness ==
  /\ FormatsOffers
  /\ Len(response.data) = 11
  /\ response.data[1].total = Price500
  /\ response.data[11].total = Price300
  /\ Len(result.list) = 10
  /\ result.list[1].id = <<"1", "1">>
  /\ 10 \notin ListedPositions

(***************************************************************************)
(* C8: every list formatter lists at most 10 entries, reports as total the *)
(* number of entries of the response, and reports as showing min(10,       *)
(* total), which is the number of entries listed.                          *)
(***************************************************************************)
C8_CappedWithTrueCounts ==
  pc = "done" /\ ~result.threw =>
    /\ Len(result.list) <= 10
    /\ result.total = Len(response.data)
    /\ result.showing = (IF result.total < 10 THEN result.total ELSE 10)
    /\ result.showing = Len(result.list)

\* a list of airlines longer than the cap
C8_Witness ==
  /\ pc = "done" /\ ~result.threw /\ tool = "get_airlines"
  /\ Len(response.data) = 11
  /\ result.total = 11 /\ result.showing = 10 /\ Len(result.list) = 10

(***************************************************************************)
(* C9: a POST to /mcp that is no initialization request and carries no     *)
(* session header or the ID of no registered session is answered with 400  *)
(* and changes neither map and creates no transport; so is a GET or DELETE *)
(* on /mcp with a missing or unregistered session ID.                      *)
(***************************************************************************)
C9_UnknownSessionRejected ==
  [][/\ \A header \in SessionHeaders :
          (header \notin DOMAIN transports /\ handleMCPRequest(header, FALSE)) =>
            /\ lastStatus' = 400
            /\ transports' = transports /\ servers' = servers
            /\ created' = created
     /\ \A method \in {"GET", "DELETE"} : \A header \in SessionHeaders :
          (header \notin DOMAIN transports /\ handleSessionRequest(method, header)) =>
            /\ lastStatus' = 400
            /\ transports' = transports /\ servers' = servers
            /\ created' = created]_vars

OpenSessions == {k \in 1..created : phase[k] = "open"}

\* C11: when the transport of a session closes, the session's entry leaves
\* the transport map in the same step, and every answer of GET /health
\* reports as activeSessions the number of sessions that were initialized
\* and are not closed.
C11_ClosureLeavesTheMap ==
  [][/\ \A k \in 1..created :
          phase[k] = "open" /\ phase'[k] = "closed"
            => sessionId[k] \notin DOMAIN transports'
     /\ Health => health' = Cardinality(OpenSessions)]_vars

\* /health has answered 1 after two sessions were initialized and one of
\* them closed
C11_Witness ==
  /\ lastRequest.method = "HEALTH"
  /\ health = 1
  /\ created = 2
  /\ \E k \in 1..created : phase[k] = "closed"
  /\ \E k \in 1..created : phase[k] = "open"

\* C12: in every state the transport map and the server map have the same
\* keys, and every key of the server map is the ID of a session that was
\* initialized and is not closed.
C12_MapsShareTheirKeys ==
  /\ DOMAIN servers = DOMAIN transports
  /\ \A key \in DOMAIN servers : \E k \in OpenSessions : sessionId[k] = key

\* C13: after a shutdown signal the process does not exit while a session
\* is still registered or its transport is not closed.
C13_SessionsClosedBeforeExit ==
  proc = "exited" => DOMAIN transports = {} /\ OpenSessions = {}

\* C14: within one session a request is processed to completion before the
\* next one begins: no session ever has two requests in flight.
C14_OneRequestAtATime == \A k \in 1..created : inflight[k] <= 1

\* C14 as amended: a request of a session begins as soon as a POST naming the
\* registered session arrives, whether or not other requests of the session
\* are in flight, and leaves those untouched; a request in flight ends only
\* by its own completion, one request at a time.
C14_RequestsOverlap ==
  [][\A k \in 1..created :
       /\ inflight'[k] \in {inflight[k] - 1, inflight[k], inflight[k] + 1}
       /\ inflight'[k] = inflight[k] + 1
            => /\ sessionId[k] \in DOMAIN transports
               /\ lastRequest' = Request("POST", sessionId[k], FALSE)
               /\ lastStatus' = 0
       /\ inflight'[k] = inflight[k] - 1
            => /\ lastRequest' = Request("POST", sessionId[k], FALSE)
               /\ lastStatus' = 200]_vars

\* two requests of one session are in flight
C14_Witness == \E k \in 1..created : inflight[k] = 2

\* C15: sessions are independent: a step that initializes a session leaves
\* what the server map holds for the sessions initialized before it as it
\* was, and no step adds process-wide state beside the session maps (the
\* listeners registered on the process stay as they were).
C15_SessionsIndependent ==
  [][/\ listeners' = listeners
     /\ \A k \in 1..created :
          InitializeCompletes(k)
            => \A key \in DOMAIN servers : servers'[key] = servers[key]]_vars

\* C16: for every tool, when the provider call fails with an error that
\* classifies as retryable and attempts are left, a backoff wait and another
\* attempt follow.
C16_EveryToolRetries ==
  [][\A e \in SdkErrors :
       (/\ SdkRejects(e)
        /\ attempt < maxAttempts
        /\ isRetryableError(handleError(handleAmadeusError(e))))
       => pc' = "waiting"]_vars

\* C17: the n-th wait of withRetry, between failed attempt n and attempt
\* n+1, is min(1000 * 2^(n-1), 30000) milliseconds: 1000, 2000, 4000, 8000,
\* 16000 and from the sixth wait on 30000; no wait is longer than 30000.
C17_BackoffDoublesUpToCap ==
  \A n \in 1..Len(waits) :
    /\ waits[n] = (IF n <= 5 THEN 1000 * 2 ^ (n - 1) ELSE 30000)
    /\ waits[n] <= 30000

\* six attempts have failed: the fifth wait was 16000, the sixth is capped
C17_Witness ==
  /\ pc = "waiting"
  /\ Len(waits) = 6
  /\ waits[1] = 1000 /\ waits[5] = 16000 /\ waits[6] = 30000

\* C18: when validateParams rejects the input of a call, the error it throws
\* has the code VALIDATION_ERROR and its details are not empty, each entry
\* naming a field of the input, carrying a message and carrying the value the
\* input has at that field; when it accepts, the value handed on is the
\* normalized input, which validates again.
C18_RejectionListsOffendingValues ==
  /\ (pc = "done" /\ tool # "none" /\ ~validated) =>
       LET v == validateParams(tool, params)
       IN  /\ ~v.ok
           /\ caught.code = "VALIDATION_ERROR"
           /\ v.error # {}
           /\ \A d \in v.error :
                /\ d.field \in DOMAIN params
                /\ d.message # ""
                /\ d.value = params[d.field]
  /\ (tool # "none" /\ validated) =>
       LET v == validateParams(tool, params)
       IN  v.ok /\ v.value = params

\* C19: searchFlightsSchema accepts the input of a search_flights call
\* exactly when origin and destination are texts of 3 characters,
\* departureDate (and returnDate if given) has the form YYYY-MM-DD, adults is
\* an integer in 1..9, children and infants if given are integers in 0..8,
\* returnDate if given is a day strictly after departureDate, and the other
\* optional fields are valid.
C19_SearchFlightsAcceptance ==
  (pc # "idle" /\ tool = "search_flights") =>
    (validated <=> MeetsConstraints("search_flights", params))

\* a round trip with children is accepted
C19_Witness ==
  /\ pc = "awaiting" /\ tool = "search_flights" /\ validated
  /\ params["returnDate"] = VStr(Date20)
  /\ params["children"] = VInt(2)
  /\ params["adults"] = VInt(1)

\* a required variable has no value in the environment
LacksValue(name) == env[name] = VUndef \/ env[name] = VStr(<< >>)

\* C20: once main has run, if AMADEUS_CLIENT_ID or AMADEUS_CLIENT_SECRET has
\* no value the process has exited with code 1, no server instance was
\* constructed and no transport was ever connected; if both have a value,
\* one server instance was constructed and the transport was handed to
\* connect.
C20_ConfigCheckedBeforeStart ==
  boot \notin {"unstarted", "main"} =>
    IF LacksValue("AMADEUS_CLIENT_ID") \/ LacksValue("AMADEUS_CLIENT_SECRET")
    THEN /\ boot = "exited" /\ exitCode = 1
         /\ instances = 0
         /\ stdio = "none"
    ELSE /\ instances = 1
         /\ stdio # "none"
         /\ config.clientId = env["AMADEUS_CLIENT_ID"]
         /\ config.clientSecret = env["AMADEUS_CLIENT_SECRET"]

\* the secret alone is missing and the process has exited with code 1
C20_Witness ==
  /\ boot = "exited" /\ exitCode = 1
  /\ env["AMADEUS_CLIENT_ID"] = VStr(<<"k", "e", "y">>)
  /\ env["AMADEUS_CLIENT_SECRET"] = VUndef
  /\ instances = 0

C22_MaxCutsTheList ==
  [][\A r \in SdkResponses :
       (/\ SdkResolves(r)
        /\ tool \in {"search_airports", "get_airlines"}
        /\ params["max"].t = "int"
        /\ pc' = "done" /\ caught' = NoError)
       => LET m == params["max"].n
          IN  /\ Len(result'.list) <= m
              /\ Len(result'.list) <= 10
              /\ \A k \in 1..Len(result'.list) : result'.list[k].id = r.data[k].id
              /\ (Len(r.data) > m => result'.count <= m)]_vars

\* search_airports with max = 1 on a provider list of two: the first entry
\* is listed, the count is 1
C22_Witness ==
  /\ pc = "done" /\ tool = "search_airports" /\ caught = NoError
  /\ params["max"] = VInt(1)
  /\ response.data = <<Offer(<<"1">>, Price500)>>
  /\ Len(result.list) = 1 /\ result.list[1].id = <<"1">>
  /\ result.count = 1

\* C23: a tool call that passed validation is not cancelled: a step that
\* opens or closes a session leaves the call as it is; a call in flight or
\* in a backoff wait ends only when the provider call succeeded, the error
\* is not retryable, or the attempts are used up; and a backoff wait can
\* always elapse into the next attempt.
C23_NoCancellation ==
  /\ [][/\ (phase' # phase \/ transports' # transports) => UNCHANGED toolVars
        /\ (pc \in {"awaiting", "waiting"} /\ pc' = "done" /\ UsesRetry(tool))
             => \/ outcome' = "returned"
                \/ ~isRetryableError(errors'[Len(errors')])
                \/ attempt = maxAttempts]_vars
  /\ [](pc = "waiting" => ENABLED BackoffElapses)

\* the only session was closed by DELETE and a call is at its third attempt
C23_Witness ==
  /\ pc = "awaiting" /\ attempt = 3
  /\ created = 1 /\ phase[1] = "closed"
  /\ lastRequest.method = "DELETE" /\ lastStatus = 200

\* the steps withRetry has taken: invocations and backoff waits
RetrySteps == calls + Len(waits)

\* C24: withRetry, for any outcomes of the operation and any maxAttempts >= 1,
\* invokes the operation at least once and at most maxAttempts times; while
\* it runs every step is one more invocation or one more wait, so it ends
\* within 2 * maxAttempts - 1 steps; and the number of backoff waits is the
\* number of invocations minus one when it ends, so no wait follows the
\* last attempt or a success.
C24_RetryLoopIsBounded ==
  /\ [](pc # "idle" =>
          /\ calls >= 1 /\ calls <= maxAttempts
          /\ RetrySteps <= 2 * maxAttempts - 1
          /\ (pc \in {"awaiting", "done"} => Len(waits) = calls - 1)
          /\ (pc = "waiting" => Len(waits) = calls /\ calls < maxAttempts))
  /\ [][(pc = "awaiting" \/ pc = "waiting") =>
          (calls' + Len(waits') =
             (IF pc' = "done" THEN RetrySteps ELSE RetrySteps + 1))]_vars

\* a success on the second of four attempts: two invocations, one wait
C24_Witness ==
  /\ pc = "done" /\ tool = "none" /\ outcome = "returned"
  /\ maxAttempts = 4 /\ calls = 2 /\ Len(waits) = 1

\* C25: a POST carrying an initialization request and a session header never
\* opens a session: it creates no transport and changes neither map, and
\* when the header names no registered session the answer is 400.
C25_InitializeWithHeaderRejected ==
  [][\A header \in SessionHeaders \ {NoHeader} :
       handleMCPRequest(header, TRUE) =>
         /\ created' = created
         /\ transports' = transports /\ servers' = servers
         /\ (header \notin DOMAIN transports => lastStatus' = 400)]_vars

\* C26: when stop() resolves, close was called on every transport that was
\* registered when stop() was called, whether or not an earlier close
\* threw, and both maps are empty: no session is counted as active
C26_StopClosesEverySession ==
  [][stopResolves =>
       /\ \A i \in 1..Len(registered) : registered[i] \in DOMAIN attempts
       /\ transports' = EmptyObject
       /\ servers' = EmptyObject
       /\ Cardinality(DOMAIN transports') = 0]_vars

\* stop() has resolved after the close of the first of two registered
\* transports threw and the second was closed
C26_Witness ==
  /\ stopState = "done"
  /\ Len(registered) = 2
  /\ attempts[registered[1]] = "threw"
  /\ attempts[registered[2]] = "closed"
  /\ activeSessions = 0
  /\ DOMAIN servers = {}

\* C27: once SIGINT or SIGTERM was received the process eventually exits,
\* whatever connections were open when the signal came
C27_SignalLeadsToExit == (proc = "closing") ~> (proc = "exited")

\* a provider error whose message carries no status in parentheses
Statusless(error) ==
  /\ error.code = ""
  /\ error.name # "ZodError"
  /\ Includes(error.message, "Amadeus API Error")
  /\ ParenNumberMatches(error.message) = {}

\* C28: a provider error whose status cannot be read from its message is
\* classified as a provider error with status 500, and withRetry retries the
\* operation after it unless the attempt was the last one
C28_StatuslessErrorIsRetried ==
  [][\A e \in ThrownErrors :
       (OperationThrows(e) /\ Statusless(e)) =>
         LET mcpError == errors'[Len(errors')]
         IN  /\ mcpError.code = "AMADEUS_API_ERROR"
             /\ mcpError.statusCode = 500
             /\ mcpError.message = e.message
             /\ (attempt < maxAttempts => pc' = "waiting")]_vars

\* the provider answered without a status at the first of three attempts:
\* the error was classified with status 500 and the second attempt is awaited
C28_Witness ==
  /\ pc = "waiting"
  /\ maxAttempts = 3
  /\ attempt = 1
  /\ Len(errors) = 1
  /\ errors[1].message = handleAmadeusError(NoStatus).message
  /\ Includes(errors[1].message, "undefined")
  /\ errors[1].statusCode = 500
  /\ Len(waits) = 1

FormatsDates ==
  pc = "done" /\ tool = "search_flight_cheapest_dates" /\ ~result.threw

\* the numeric price of the provider's i-th date, 0 when it has none
DateValue(i) ==
  IF response.data[i].hasPrice /\ response.data[i].total # << >>
  THEN DecimalValue(response.data[i].total)
  ELSE 0

NotAvailable == <<"N", "/", "A">>

\* C29: formatFlightCheapestDates lists the dates in non-decreasing order of
\* their numeric price, a date without a price being shown as N/A and
\* counting as 0: every listed date without a price stands before every
\* listed date with a positive price, and no date left out of the list has
\* a smaller value than a listed one, so that dates without a price take
\* the places of priced ones
C29_UnpricedDatesComeFirst ==
  FormatsDates =>
    /\ \A k \in 1..Len(result.list) :
         (result.list[k].price = NotAvailable)
           <=> ~response.data[PositionOf(result.list[k].id)].hasPrice
    /\ \A k \in 1..(Len(result.list) - 1) :
         DateValue(PositionOf(result.list[k].id))
           <= DateValue(PositionOf(result.list[k + 1].id))
    /\ \A k, l \in 1..Len(result.list) :
         (/\ result.list[k].price = NotAvailable
          /\ DateValue(PositionOf(result.list[l].id)) > 0) => k < l
    /\ \A i \in (1..Len(response.data)) \ ListedPositions :
         \A k \in 1..Len(result.list) :
           DateValue(PositionOf(result.list[k].id)) <= DateValue(i)

\* eleven dates of which only the last has no price: it is listed first, as
\* N/A, and the tenth priced date is left out
C29_Witness ==
  /\ FormatsDates
  /\ Len(response.data) = 11
  /\ \A i \in 1..10 : response.data[i].total = Price300
  /\ ~response.data[11].hasPrice
  /\ Len(result.list) = 10
  /\ result.list[1].id = <<"1", "1">>
  /\ result.list[1].price = NotAvailable
  /\ 10 \notin ListedPositions

\* C30: handleError returns what it has classified as it is: every error
\* withRetry has classified, and the one it throws to the handler, classify
\* to themselves, and classifying twice what the handler caught gives the
\* code and the message of classifying it once
C30_HandleErrorIdempotent ==
  /\ \A i \in 1..Len(errors) : handleError(errors[i]) = errors[i]
  /\ (pc = "done" /\ outcome = "threw") =>
       /\ handleError(handleError(caught)).code = handleError(caught).code
       /\ handleError(handleError(caught)).message = handleError(caught).message
       /\ handleError(handleError(caught)) = handleError(caught)
       /\ (Len(errors) > 0 /\ caught = errors[Len(errors)]) =>
            handleError(caught) = caught

\* withRetry has given up after three attempts that failed with a network
\* error: the error it threw is the classified one, with the prefix that
\* createNetworkError puts before the message
C30_Witness ==
  /\ pc = "done"
  /\ outcome = "threw"
  /\ calls = 3
  /\ Len(errors) = 3
  /\ caught = errors[3]
  /\ caught.code = "NETWORK_ERROR"
  /\ caught.message[1] = "Network error:"
  /\ Includes(caught.message, "Network Error")

====
